---- MODULE Spec2Model ----
(***************************************************************************)
(* State-machine model of the social-media manager front end:              *)
(*   - AgentChat       (frontend/src/components/AgentChat.js)              *)
(*   - CacheService    (services/cache, unnamed/part_004)                  *)
(*   - Dashboard       (frontend/src/components/Dashboard.js)              *)
(*   - Analytics       (frontend/src/components/Analytics.js)              *)
(* Each component is modelled for one mounted instance; the browser's      *)
(* event loop runs one handler or one promise continuation at a time, so   *)
(* every action below is one such run-to-completion step.                  *)
(***************************************************************************)
EXTENDS Integers, Sequences, FiniteSets, TLC

\* ------------------------------------------------------------------ bounds
MaxTime == 1
MaxSends == 2
MaxQueue == 3
MaxClock == 13
MaxCalls == 2
MaxLoads == 3
MaxCalRequests == 2
MaxAppRequests == 3
MaxPath == 8
MaxDay == 7
MaxWeekLoads == 3
MaxMonths == 60

\* JavaScript null / undefined, where strings are expected
NULL == "null"

\* JavaScript null, where objects are expected
NullValue == [ null |-> TRUE ]

\* --------------------------------------------------------------- variables
VARIABLES
  \* AgentChat component state (useState hooks)
  messages, inputMessage, isLoading,
  currentWorkflow, agentQueue, completedAgents,
  \* the network as seen from AgentChat
  chatInflight,   \* POST /chat requests issued and not yet settled
  chatIssued,     \* log of every POST /chat request body, in order
  chatReplies,    \* log of how each settled request ended, in order
  \* CacheService singleton (two JavaScript Maps)
  cache, expiry,
  lastSet,        \* per key, the arguments and time of the latest set not yet cleared
  gosPending,     \* getOrSet calls awaiting their asyncFn
  gosDone,        \* getOrSet calls that returned or threw
  cacheSeq,       \* number of getOrSet events so far
  \* Dashboard component state (useState hooks)
  dashLoading, loadingProgress, dashError, dataLoaded,
  dashData,       \* the result processDashboardData rendered last
  dashTimer,      \* the 100 ms mount timer is still pending
  dashCalls,      \* fetchInstagramData calls suspended at an await
  dashLoads,      \* log of the fetchInstagramData calls that ended
  dashStarted,    \* number of fetchInstagramData calls so far
  \* Analytics component state (useState hooks)
  anLoading, anError, timeRange,
  anData,         \* whether the account / media block has filled the charts
  anEffect,       \* the [timeRange] effect is due to run
  anCalls,        \* fetchAnalyticsData calls suspended at an await
  anLoads,        \* log of the fetchAnalyticsData calls that ended
  anStarted,      \* number of fetchAnalyticsData calls so far
  \* ContentCalendar component state (useState hooks)
  scheduledPosts, showScheduleModal, selectedPost, newPost,
  calMounted,     \* the component is mounted
  calEffect,      \* the mount effect is due to run
  calInterval,    \* the 30 s interval of the mount effect is set
  calRequests,    \* fetch calls of the calendar awaiting their response
  calIssued,      \* log of the requests the calendar has issued
  calOutcome,     \* how the request of the calendar that settled last ended
  \* App component state and the lifecycle of the tab components
  activeTab,
  dashMounted,    \* the Dashboard is mounted
  dashInterval,   \* the 30 s interval of the Dashboard's mount effect is set
  nextPost,       \* Dashboard state: the next scheduled post
  nextPostCalls,  \* fetchNextScheduledPost calls awaiting their response
  nextPostIssued, \* number of fetchNextScheduledPost calls so far
  orphans,        \* requests in flight whose component has unmounted
  \* the edges followed so far through the documented workflow graph
  graphPath,
  \* Dashboard state behind the weekly performance chart
  allPosts, analyticsData,
  weekError,      \* the error view with its Retry button is shown
  weekTimer,      \* the 100 ms mount timer is still pending
  weekLoads,      \* dashboard loads suspended at an await, each with its closure
  chartSet,       \* the chart fetchWeeklyInsights set last, with the call that set it
  weekStarted,    \* number of dashboard loads so far
  today,          \* the weekday of new Date()
  \* ContentCalendar state: the date whose month the grid shows
  currentDate,
  \* Date.now()
  now

chatVars == <<messages, inputMessage, isLoading,
              currentWorkflow, agentQueue, completedAgents,
              chatInflight, chatIssued, chatReplies>>

cacheVars == <<cache, expiry, lastSet, gosPending, gosDone, cacheSeq>>

dashVars == <<dashLoading, loadingProgress, dashError, dataLoaded, dashData,
              dashTimer, dashCalls, dashLoads, dashStarted>>

anVars == <<anLoading, anError, timeRange, anData, anEffect, anCalls, anLoads, anStarted>>

calVars ==
  <<scheduledPosts, showScheduleModal, selectedPost, newPost, calMounted, calEffect,
    calInterval, calRequests, calIssued, calOutcome>>

\* fetchNextScheduledPost calls
pollVars == <<nextPostCalls, nextPostIssued>>

appVars == <<activeTab, dashMounted, dashInterval, nextPost, orphans>>

docVars == <<graphPath>>

navVars == <<currentDate>>

weekVars ==
  <<allPosts, analyticsData, weekError, weekTimer, weekLoads, chartSet, weekStarted, today>>

vars == <<chatVars, cacheVars, dashVars, anVars, calVars, pollVars, appVars, docVars, weekVars, navVars, now>>

\* what the AgentChat actions leave alone
notChat == <<cacheVars, dashVars, anVars, calVars, pollVars, appVars, docVars, weekVars, navVars>>

\* what the CacheService actions leave alone
notCache == <<chatVars, dashVars, anVars, calVars, pollVars, appVars, docVars, weekVars, navVars>>

\* what the Dashboard actions leave alone, the cache apart
notDash == <<chatVars, gosPending, gosDone, cacheSeq, anVars, calVars, appVars, docVars, weekVars, navVars>>

\* what the Analytics actions leave alone
notAnalytics == <<chatVars, cacheVars, dashVars, calVars, pollVars, appVars, docVars, weekVars, navVars, now>>

\* what the ContentCalendar actions leave alone
notCalendar ==
  <<chatVars, cacheVars, dashVars, anVars, pollVars, appVars, docVars, weekVars, navVars,
    now, calOutcome>>

\* ------------------------------------------------------------------- text
\* A string is a sequence of one-character strings.
IsWhitespace(c) == c \in {" ", "\n", "\t"}

RECURSIVE TrimStart(_)
TrimStart(s) ==
  IF s = <<>> THEN <<>>
  ELSE IF IsWhitespace(Head(s)) THEN TrimStart(Tail(s)) ELSE s

RECURSIVE TrimEnd(_)
TrimEnd(s) ==
  IF s = <<>> THEN <<>>
  ELSE IF IsWhitespace(s[Len(s)]) THEN TrimEnd(SubSeq(s, 1, Len(s) - 1)) ELSE s

\* String.prototype.trim
Trim(s) == TrimEnd(TrimStart(s))

\* what the user can type into the textarea
InputTexts == { <<>>, <<" ", "\n">>, <<" ", "g", "o", " ">> }

quickPrompts == { <<"C", "r", "e", "a", "t", "e">> }

\* ------------------------------------------------------------ AgentChat
\* The selected agent only decorates the request (context_data) and the
\* user's bubble, and a bot message's workflow_type, agent_responses and
\* generated_content are only displayed; they are left out.
API_BASE_URL == "http://localhost:8000"

ApologyText == "Sorry, there was an error processing your request. Please try again."

\* `web-${Date.now()}`
SessionId(t) == <<"web-", t>>

\* agent names the backend workflow may report
AgentNames == { "content", "compliance" }

RECURSIVE SeqsUpTo(_, _)
SeqsUpTo(S, n) ==
  IF n = 0 THEN { <<>> }
  ELSE LET shorter == SeqsUpTo(S, n - 1)
       IN shorter \cup { Append(q, a) : q \in { s \in shorter : Len(s) = n - 1 }, a \in S }

\* the user message built by sendMessage
UserMessage(t, text) ==
  [ id |-> t, type |-> "user", content |-> text, isError |-> FALSE ]

\* the request handed to fetch by sendMessage
ChatRequest(t, text) ==
  [ url |-> <<API_BASE_URL, "/chat">>, method |-> "POST",
    message |-> text, session_id |-> SessionId(t) ]

\* An optional array field is the set of its values: {} when the field is
\* absent (undefined), { a } when it holds the array a.
Absent == {}

Some(a) == { a }

The(x) == CHOOSE a \in x : TRUE

\* data.agent_queue || []
OrEmpty(x) == IF x = Absent THEN <<>> ELSE The(x)

\* data.agent_responses?.map(r => r.agent) || []
AgentsOf(responses) ==
  IF responses = Absent THEN <<>>
  ELSE [ i \in 1..Len(The(responses)) |-> The(responses)[i].agent ]

Range(f) == { f[i] : i \in DOMAIN f }

\* the bot message built from a parsed response body
BotMessage(t, data) ==
  [ id |-> t + 1, type |-> "bot", content |-> data.final_response,
    isError |-> FALSE ]

\* a catch block that shows the apology without flagging it
ErrorMessage_NotFlagged(t) ==
  [ id |-> t + 1, type |-> "bot", content |-> ApologyText,
    isError |-> FALSE ]

\* the bot message built in the catch block
ErrorMessage(t) ==
  [ id |-> t + 1, type |-> "bot", content |-> ApologyText,
    isError |-> TRUE ]

\* response bodies of POST /chat
WorkflowTypes == { NULL, "direct", "sequential" }

AgentResponses(n) ==
  { [ i \in 1..Len(q) |-> [ agent |-> q[i] ] ] : q \in SeqsUpTo(AgentNames, n) }

ChatData ==
  [ workflow_type : WorkflowTypes,
    agent_queue : { Some(q) : q \in SeqsUpTo(AgentNames, MaxQueue) } \cup { Absent },
    agent_responses : { Some(r) : r \in AgentResponses(MaxQueue) } \cup { Absent },
    final_response : { "done" } ]

\* a few response bodies, enough for the message flow
ChatDataSample ==
  { [ workflow_type |-> "sequential",
      agent_queue |-> Some(<<"content", "compliance">>),
      agent_responses |-> Some(<<[agent |-> "content"]>>),
      final_response |-> "done" ],
    [ workflow_type |-> "direct",
      agent_queue |-> Absent,
      agent_responses |-> Absent,
      final_response |-> "done" ] }

\* how a request can end: fetch rejects, the status is not OK, reading the
\* body rejects, or the body parses to data
ChatOutcomes(D) ==
  { [ kind |-> k, data |-> Absent ] : k \in { "throws", "not_ok", "bad_json" } }
    \cup { [ kind |-> "ok", data |-> Some(d) ] : d \in D }

\* a WorkflowProgress whose isCurrent test is off by one
WorkflowProgress_OffByOne(workflow, queue, completed) ==
  IF workflow = NULL \/ workflow = "direct" THEN Absent
  ELSE Some([ i \in 1..Len(queue) |->
           LET isCompleted == queue[i] \in Range(completed)
               isCurrent == ~isCompleted /\ i = Len(completed)
           IN IF isCompleted THEN "completed"
              ELSE IF isCurrent THEN "current"
              ELSE "pending" ])

\* WorkflowProgress component: Absent when it renders nothing, otherwise the
\* status shown at each queue position (index i - 1 in the source)
WorkflowProgress(workflow, queue, completed) ==
  IF workflow = NULL \/ workflow = "direct" THEN Absent
  ELSE Some([ i \in 1..Len(queue) |->
           LET isCompleted == queue[i] \in Range(completed)
               isCurrent == ~isCompleted /\ (i - 1) = Len(completed)
           IN IF isCompleted THEN "completed"
              ELSE IF isCurrent THEN "current"
              ELSE "pending" ])

\* --------------------------------------------------------- CacheService
\* Times are in minutes.
defaultTTL == 10

\* the ttl Dashboard passes for 'dashboard_data' (3 * 60 * 1000 ms)
DashboardTTL == 3

CacheKeys == { "dashboard_data", "posts" }

CacheValues == { [ value |-> "a" ], [ value |-> "b" ], NullValue }

\* an explicit ttl argument, or none (the default applies)
TtlArgs == { Absent, Some(DashboardTTL) }

\* ttl = this.defaultTTL
TtlOf(arg) == IF arg = Absent THEN defaultTTL ELSE The(arg)

\* Map.prototype.set
MapSet(m, key, value) ==
  [ k \in DOMAIN m \cup { key } |-> IF k = key THEN value ELSE m[k] ]

\* Map.prototype.delete
MapDelete(m, key) == [ k \in DOMAIN m \ { key } |-> m[k] ]

EmptyMap == [ k \in {} |-> NullValue ]

\* the entry for key is present and its expiry time has passed
Expired(key) == key \in DOMAIN cache /\ now > expiry[key]

\* an expiry test that already fails at the expiry time itself
GetResult_ExpiresEarly(key) ==
  IF key \notin DOMAIN cache THEN NullValue
  ELSE IF now >= expiry[key] THEN NullValue
  ELSE cache[key]

\* what get(key) returns
GetResult(key) ==
  IF key \notin DOMAIN cache THEN NullValue
  ELSE IF now > expiry[key] THEN NullValue
  ELSE cache[key]

\* the Maps after get(key): an expired entry is deleted
CacheAfterGet(key) ==
  IF Expired(key)
  THEN [ cache |-> MapDelete(cache, key), expiry |-> MapDelete(expiry, key) ]
  ELSE [ cache |-> cache, expiry |-> expiry ]

\* the Maps after set(key, value, ttl) on the Maps c, e
CacheAfterSet(c, e, key, value, ttl) ==
  [ cache |-> MapSet(c, key, value), expiry |-> MapSet(e, key, now + ttl) ]

CacheInit ==
  /\ cache = EmptyMap
  /\ expiry = EmptyMap
  /\ lastSet = EmptyMap
  /\ gosPending = {}
  /\ gosDone = {}
  /\ cacheSeq = 0

\* set(key, value, ttl)
CacheSet(key, value, ttlArg) ==
  /\ cache' = CacheAfterSet(cache, expiry, key, value, TtlOf(ttlArg)).cache
  /\ expiry' = CacheAfterSet(cache, expiry, key, value, TtlOf(ttlArg)).expiry
  /\ lastSet' = MapSet(lastSet, key, [ value |-> value, at |-> now, ttl |-> ttlArg ])
  /\ UNCHANGED <<gosPending, gosDone, cacheSeq, now, notCache>>

\* get(key), which returns GetResult(key)
CacheGet(key) ==
  /\ cache' = CacheAfterGet(key).cache
  /\ expiry' = CacheAfterGet(key).expiry
  /\ UNCHANGED <<lastSet, gosPending, gosDone, cacheSeq, now, notCache>>

\* what has(key) returns: this.get(key) !== null
HasResult(key) == GetResult(key) # NullValue

\* has(key), which returns HasResult(key)
CacheHas(key) ==
  /\ cache' = CacheAfterGet(key).cache
  /\ expiry' = CacheAfterGet(key).expiry
  /\ UNCHANGED <<lastSet, gosPending, gosDone, cacheSeq, now, notCache>>

\* clear()
CacheClear ==
  /\ cache' = EmptyMap
  /\ expiry' = EmptyMap
  /\ lastSet' = EmptyMap
  /\ UNCHANGED <<gosPending, gosDone, cacheSeq, now, notCache>>

\* getOrSet(key, asyncFn, ttl), up to the await of asyncFn
GetOrSetStart(key, ttlArg) ==
  LET cached == GetResult(key)
      id == Cardinality(gosPending) + Cardinality(gosDone) + 1
  IN /\ cache' = CacheAfterGet(key).cache
     /\ expiry' = CacheAfterGet(key).expiry
     /\ cacheSeq' = cacheSeq + 1
     /\ IF cached # NullValue
        THEN /\ gosDone' = gosDone \cup
                  { [ id |-> id, key |-> key, start |-> cacheSeq', end |-> cacheSeq',
                      calledFn |-> FALSE, wrote |-> FALSE, returned |-> cached ] }
             /\ UNCHANGED gosPending
        ELSE /\ gosPending' = gosPending \cup
                  { [ id |-> id, key |-> key, ttl |-> ttlArg, start |-> cacheSeq' ] }
             /\ UNCHANGED gosDone
     /\ UNCHANGED <<lastSet, now, notCache>>

\* getOrSet, from asyncFn resolving with result to the return
GetOrSetResolve(call, result) ==
  /\ call \in gosPending
  /\ cache' = CacheAfterSet(cache, expiry, call.key, result, TtlOf(call.ttl)).cache
  /\ expiry' = CacheAfterSet(cache, expiry, call.key, result, TtlOf(call.ttl)).expiry
  /\ lastSet' = MapSet(lastSet, call.key, [ value |-> result, at |-> now, ttl |-> call.ttl ])
  /\ cacheSeq' = cacheSeq + 1
  /\ gosPending' = gosPending \ { call }
  /\ gosDone' = gosDone \cup
       { [ id |-> call.id, key |-> call.key, start |-> call.start, end |-> cacheSeq',
           calledFn |-> TRUE, wrote |-> TRUE, returned |-> result ] }
  /\ UNCHANGED <<now, notCache>>

\* getOrSet, asyncFn rejecting: the error is rethrown
GetOrSetReject(call) ==
  /\ call \in gosPending
  /\ cacheSeq' = cacheSeq + 1
  /\ gosPending' = gosPending \ { call }
  /\ gosDone' = gosDone \cup
       { [ id |-> call.id, key |-> call.key, start |-> call.start, end |-> cacheSeq',
           calledFn |-> TRUE, wrote |-> FALSE, returned |-> [ throws |-> TRUE ] ] }
  /\ UNCHANGED <<cache, expiry, lastSet, now, notCache>>

\* time passes
ClockSteps == { DashboardTTL, defaultTTL }

Advance(d) ==
  /\ now + d <= MaxClock
  /\ now' = now + d
  /\ UNCHANGED <<chatVars, cacheVars, dashVars, anVars, calVars, pollVars, appVars, docVars, weekVars, navVars>>

\* ------------------------------------------------------------ Dashboard
\* An error message is a sequence of words; String.prototype.includes is
\* the test for a contiguous run of words.
Includes(text, words) ==
  \E i \in 0..(Len(text) - Len(words)) : SubSeq(text, i + 1, i + Len(words)) = words

\* what can be thrown inside the try block of fetchInstagramData
FetchErrors ==
  { [ kind |-> "network", name |-> "TypeError", message |-> <<"Failed", "to", "fetch">> ],
    [ kind |-> "timeout", name |-> "TimeoutError", message |-> <<"signal", "timed", "out">> ] }

\* new Error(`HTTP ${response.status}: ${response.statusText}`)
HttpError ==
  [ kind |-> "http", name |-> "Error",
    message |-> <<"HTTP", "500:", "Internal", "Server", "Error">> ]

\* response.json() rejecting
JsonError ==
  [ kind |-> "bad_json", name |-> "SyntaxError", message |-> <<"Unexpected", "token">> ]

\* new Error('Dashboard data fetch failed')
NotSuccessError ==
  [ kind |-> "not_success", name |-> "Error",
    message |-> <<"Dashboard", "data", "fetch", "failed">> ]

\* processDashboardData reading fields of a missing result.data
ProcessError ==
  [ kind |-> "process", name |-> "TypeError",
    message |-> <<"Cannot", "destructure", "undefined">> ]

\* bodies of GET /dashboard/data: data is the snapshot, NULL when missing
DashResults ==
  { [ success |-> TRUE, data |-> "snapshot1" ],
    [ success |-> TRUE, data |-> "snapshot2" ],
    [ success |-> TRUE, data |-> NULL ],
    [ success |-> FALSE, data |-> NULL ] }

\* processDashboardData throws when result.data cannot be destructured
ProcessThrows(result) == result.data = NULL

\* a catch block that leaves the error unset for HTTP errors
CatchMessage_DropsHttp(err) ==
  IF err.kind = "http" THEN Absent
  ELSE IF err.name = "TimeoutError" \/ Includes(err.message, <<"timeout">>)
  THEN Some(<<"Request", "timed", "out", "after", "25", "seconds.">>)
  ELSE IF Includes(err.message, <<"Failed", "to", "fetch">>)
  THEN Some(<<"Network", "error.">>)
  ELSE Some(<<"Failed", "to", "load", "data:">> \o err.message)

\* a catch block whose last branch keeps the initial errorMessage
CatchMessage_DefaultKept(err) ==
  IF err.name = "TimeoutError" \/ Includes(err.message, <<"timeout">>)
  THEN Some(<<"Request", "timed", "out", "after", "25", "seconds.">>)
  ELSE IF Includes(err.message, <<"Failed", "to", "fetch">>)
  THEN Some(<<"Network", "error.">>)
  ELSE Some(<<"Failed", "to", "load", "Instagram", "data">>)

\* the errorMessage chosen in the catch block
CatchMessage(err) ==
  IF err.name = "TimeoutError" \/ Includes(err.message, <<"timeout">>)
  THEN Some(<<"Request", "timed", "out", "after", "25", "seconds.">>)
  ELSE IF Includes(err.message, <<"Failed", "to", "fetch">>)
  THEN Some(<<"Network", "error.">>)
  ELSE Some(<<"Failed", "to", "load", "data:">> \o err.message)

\* JavaScript truthiness of the error state
Truthy(x) == x # Absent /\ The(x) # <<>>

\* which of its two returns the Dashboard renders
DashboardView == IF Truthy(dashError) THEN "error" ELSE "dashboard"

DashInit ==
  /\ dashLoading = FALSE
  /\ loadingProgress = 0
  /\ dashError = Absent
  /\ dataLoaded = FALSE
  /\ dashData = NULL
  /\ dashTimer = TRUE
  /\ dashCalls = {}
  /\ dashLoads = {}
  /\ dashStarted = 0

\* catch and finally of fetchInstagramData, for the call id
DashFail(id, err) ==
  /\ dashError' = CatchMessage(err)
  /\ dashLoading' = FALSE
  /\ loadingProgress' = 0
  /\ dashLoads' = dashLoads \cup { [ id |-> id, outcome |-> err.kind ] }

\* fetchInstagramData, up to the await of fetch (or to its end on a cache hit)
fetchInstagramData ==
  LET id == dashStarted + 1
      cachedData == GetResult("dashboard_data")
  IN /\ dashStarted' = id
     /\ cache' = CacheAfterGet("dashboard_data").cache
     /\ expiry' = CacheAfterGet("dashboard_data").expiry
     /\ IF cachedData # NullValue
        THEN IF ProcessThrows(cachedData)
             THEN /\ DashFail(id, ProcessError)
                  /\ UNCHANGED <<dataLoaded, dashData, dashCalls>>
             ELSE /\ dashData' = cachedData.data
                  /\ dataLoaded' = TRUE
                  /\ dashLoading' = FALSE
                  /\ loadingProgress' = 0
                  /\ dashLoads' = dashLoads \cup { [ id |-> id, outcome |-> "cached" ] }
                  /\ UNCHANGED <<dashError, dashCalls>>
        ELSE /\ dashLoading' = TRUE
             /\ loadingProgress' = 10
             /\ dashCalls' = dashCalls \cup { [ id |-> id, stage |-> "fetch" ] }
             /\ UNCHANGED <<dashError, dataLoaded, dashData, dashLoads>>
     /\ UNCHANGED <<lastSet, now, notDash>>

\* fetchNextScheduledPost, up to the await of fetch
fetchNextScheduledPost ==
  /\ nextPostIssued' = nextPostIssued + 1
  /\ nextPostCalls' = nextPostCalls \cup { [ id |-> nextPostIssued + 1 ] }

\* the mount effect's timer fires: dataLoaded is the first render's, false
DashTimerFires ==
  /\ dashTimer
  /\ dashTimer' = FALSE
  /\ fetchInstagramData
  /\ fetchNextScheduledPost

\* Retry button of the error view
RetryClick ==
  /\ DashboardView = "error"
  /\ fetchInstagramData
  /\ UNCHANGED <<dashTimer, pollVars>>

\* fetch rejects, or resolves with a response that is not OK
DashFetchFails(call, err) ==
  /\ call \in dashCalls /\ call.stage = "fetch"
  /\ dashCalls' = dashCalls \ { call }
  /\ DashFail(call.id, err)
  /\ UNCHANGED <<dataLoaded, dashData, dashTimer, dashStarted, cache, expiry, lastSet,
                 now, notDash, pollVars>>

\* fetch resolves with an OK response: on to the await of response.json()
DashFetchOk(call) ==
  /\ call \in dashCalls /\ call.stage = "fetch"
  /\ dashCalls' = (dashCalls \ { call }) \cup { [ id |-> call.id, stage |-> "json" ] }
  /\ loadingProgress' = 50
  /\ UNCHANGED <<dashLoading, dashError, dataLoaded, dashData, dashTimer, dashLoads,
                 dashStarted, cache, expiry, lastSet, now, notDash, pollVars>>

\* response.json() rejects
DashJsonFails(call) ==
  /\ call \in dashCalls /\ call.stage = "json"
  /\ dashCalls' = dashCalls \ { call }
  /\ DashFail(call.id, JsonError)
  /\ UNCHANGED <<dataLoaded, dashData, dashTimer, dashStarted, cache, expiry, lastSet,
                 now, notDash, pollVars>>

\* a fetchInstagramData that caches the body before looking at result.success
DashJsonOk_CachesFirst(call, result) ==
  /\ call \in dashCalls /\ call.stage = "json"
  /\ dashCalls' = dashCalls \ { call }
  /\ cache' = CacheAfterSet(cache, expiry, "dashboard_data", result, DashboardTTL).cache
  /\ expiry' = CacheAfterSet(cache, expiry, "dashboard_data", result, DashboardTTL).expiry
  /\ lastSet' = MapSet(lastSet, "dashboard_data",
                       [ value |-> result, at |-> now, ttl |-> Some(DashboardTTL) ])
  /\ IF ~result.success
     THEN /\ DashFail(call.id, NotSuccessError)
          /\ UNCHANGED <<dataLoaded, dashData>>
     ELSE IF ProcessThrows(result)
          THEN /\ DashFail(call.id, ProcessError)
               /\ UNCHANGED <<dataLoaded, dashData>>
          ELSE /\ dashData' = result.data
               /\ dataLoaded' = TRUE
               /\ dashLoading' = FALSE
               /\ loadingProgress' = 0
               /\ dashLoads' = dashLoads \cup { [ id |-> call.id, outcome |-> "ok" ] }
               /\ UNCHANGED dashError
  /\ UNCHANGED <<dashTimer, dashStarted, now, notDash, pollVars>>

\* response.json() resolves with result: the rest of fetchInstagramData
DashJsonOk(call, result) ==
  /\ call \in dashCalls /\ call.stage = "json"
  /\ dashCalls' = dashCalls \ { call }
  /\ IF ~result.success
     THEN /\ DashFail(call.id, NotSuccessError)
          /\ UNCHANGED <<dataLoaded, dashData, cache, expiry, lastSet>>
     ELSE /\ cache' = CacheAfterSet(cache, expiry, "dashboard_data", result, DashboardTTL).cache
          /\ expiry' = CacheAfterSet(cache, expiry, "dashboard_data", result, DashboardTTL).expiry
          /\ lastSet' = MapSet(lastSet, "dashboard_data",
                               [ value |-> result, at |-> now, ttl |-> Some(DashboardTTL) ])
          /\ IF ProcessThrows(result)
             THEN /\ DashFail(call.id, ProcessError)
                  /\ UNCHANGED <<dataLoaded, dashData>>
             ELSE /\ dashData' = result.data
                  /\ dataLoaded' = TRUE
                  /\ dashLoading' = FALSE
                  /\ loadingProgress' = 0
                  /\ dashLoads' = dashLoads \cup { [ id |-> call.id, outcome |-> "ok" ] }
                  /\ UNCHANGED dashError
  /\ UNCHANGED <<dashTimer, dashStarted, now, notDash, pollVars>>

\* ------------------------------------------------------------ Analytics
\* the four awaits of fetchAnalyticsData, in order
AnStages == <<"account", "media", "topPosts", "insights">>

\* what an awaited call hands back: a body with its success flag
AnResponses == { [ success |-> TRUE ], [ success |-> FALSE ] }

\* what an awaited call can throw: err.response?.data?.detail and err.message
AnErrors ==
  { [ detail |-> Absent, message |-> <<"Network", "Error">> ],
    [ detail |-> Some(<<"Instagram", "API", "error">>),
      message |-> <<"Request", "failed", "with", "status", "code", "500">> ] }

\* `Failed to load analytics data: ${err.response?.data?.detail || err.message}`
AnCatchMessage(err) ==
  Some(<<"Failed", "to", "load", "analytics", "data:">>
         \o (IF err.detail # Absent THEN The(err.detail) ELSE err.message))

timeRanges == { "7d", "30d", "90d" }

\* which of its three returns Analytics renders
AnalyticsView ==
  IF anLoading THEN "loading"
  ELSE IF Truthy(anError) THEN "error"
  ELSE "data"

AnalyticsInit ==
  /\ anLoading = TRUE
  /\ anError = Absent
  /\ timeRange = "7d"
  /\ anData = FALSE
  /\ anEffect = TRUE
  /\ anCalls = {}
  /\ anLoads = {}
  /\ anStarted = 0

\* fetchAnalyticsData, up to the await of getAccountInfo
fetchAnalyticsData ==
  /\ anLoading' = TRUE
  /\ anStarted' = anStarted + 1
  /\ anCalls' = anCalls \cup
       { [ id |-> anStarted + 1, stage |-> 1, account |-> FALSE, media |-> FALSE,
           topPosts |-> FALSE ] }
  /\ UNCHANGED <<anError, timeRange, anData, anLoads, notAnalytics>>

\* useEffect(() => { fetchAnalyticsData(); }, [timeRange])
AnEffectRuns ==
  /\ anEffect
  /\ anEffect' = FALSE
  /\ fetchAnalyticsData

\* Retry button of the error view
AnRetryClick ==
  /\ AnalyticsView = "error"
  /\ fetchAnalyticsData
  /\ UNCHANGED anEffect

\* a time range button of the data view
SetTimeRange(range) ==
  /\ AnalyticsView = "data"
  /\ timeRange' = range
  /\ anEffect' = (anEffect \/ range # timeRange)
  /\ UNCHANGED <<anLoading, anError, anData, anCalls, anLoads, anStarted, notAnalytics>>

\* an awaited call rejects: catch, then finally
AnCallThrows(call, err) ==
  /\ call \in anCalls
  /\ anCalls' = anCalls \ { call }
  /\ anError' = AnCatchMessage(err)
  /\ anLoading' = FALSE
  /\ anLoads' = anLoads \cup
       { [ id |-> call.id, threw |-> TRUE, account |-> FALSE, media |-> FALSE ] }
  /\ UNCHANGED <<timeRange, anData, anEffect, anStarted, notAnalytics>>

\* one of the first three awaited calls resolves: on to the next await
AnCallReturns(call, response) ==
  /\ call \in anCalls
  /\ call.stage < Len(AnStages)
  /\ anCalls' = (anCalls \ { call }) \cup
       { [ call EXCEPT !.stage = call.stage + 1,
                       ![AnStages[call.stage]] = response.success ] }
  /\ UNCHANGED <<anLoading, anError, timeRange, anData, anEffect, anLoads, anStarted,
                 notAnalytics>>

\* the insights fetch resolves (not OK counts as success false): the rest of
\* the try block, then finally.  The chart computations of the success block
\* and its demographics fetch, which has a try / catch of its own, are
\* summarised by anData.
AnFinish(call, insights) ==
  /\ call \in anCalls
  /\ call.stage = Len(AnStages)
  /\ anCalls' = anCalls \ { call }
  /\ anData' = (anData \/ (call.account /\ call.media))
  /\ anLoading' = FALSE
  /\ anLoads' = anLoads \cup
       { [ id |-> call.id, threw |-> FALSE, account |-> call.account,
           media |-> call.media ] }
  /\ UNCHANGED <<anError, timeRange, anEffect, anStarted, notAnalytics>>

\* ------------------------------------------------------ ContentCalendar
\* Left out: currentDate and the month grid, and the platform and imageUrl
\* fields of the form, which no handler branches on.  Every post of the list
\* is taken to lie in the month displayed.

\* values of the datetime-local input; "" is the untouched input
InputTimes == { "2025-01-01T10:00" }

\* new Date(value).toISOString(): a RangeError for the empty input
ToISOString(value) == IF value = "" THEN Absent ELSE Some(<<value, ":00.000Z">>)

\* new Date(iso).toISOString().slice(0, 16), time zones apart
Slice16(iso) == iso[1]

ContentTexts == { "hello" }

BlankForm == [ content |-> "", scheduledTime |-> "" ]

PostIds == { 1, 2 }

Post(id, content, time) == [ id |-> id, content |-> content, scheduled_time |-> time ]

\* the posts the backend may hold
ServerPosts ==
  { Post(id, "hello", <<"2025-01-01T10:00", ":00.000Z">>) : id \in PostIds }

\* result.data of GET /api/scheduled-posts, when the body has one
ServerLists ==
  { <<>> } \cup { <<post>> : post \in ServerPosts }
    \cup { <<Post(1, "hello", <<"2025-01-01T10:00", ":00.000Z">>),
             Post(2, "hello", <<"2025-01-01T10:00", ":00.000Z">>)>> }

ScheduledPostsPath == [ base |-> "/api/scheduled-posts", id |-> Absent ]

SchedulePostPath == [ base |-> "/api/schedule-post", id |-> Absent ]

ScheduledPostPath(id) == [ base |-> "/api/scheduled-posts", id |-> Some(id) ]

\* array.filter and array.map over a sequence
RECURSIVE FilterOut(_, _)
FilterOut(posts, id) ==
  IF posts = <<>> THEN <<>>
  ELSE IF Head(posts).id = id THEN FilterOut(Tail(posts), id)
  ELSE <<Head(posts)>> \o FilterOut(Tail(posts), id)

Replace(posts, id, post) ==
  [ i \in DOMAIN posts |-> IF posts[i].id = id THEN post ELSE posts[i] ]

CalendarInit ==
  /\ scheduledPosts = <<>>
  /\ showScheduleModal = FALSE
  /\ selectedPost = Absent
  /\ newPost = BlankForm
  /\ calMounted = TRUE
  /\ calEffect = TRUE
  /\ calInterval = FALSE
  /\ calRequests = {}
  /\ calIssued = <<>>
  /\ calOutcome = Absent

\* a fetch call: the request goes out and the handler waits for it, with the
\* state its render had captured
CalFetch(op, method, path, captured) ==
  /\ calIssued' = Append(calIssued, [ op |-> op, method |-> method, path |-> path ])
  /\ calRequests' = calRequests \cup
       { [ seq |-> Len(calIssued) + 1, op |-> op, method |-> method, path |-> path,
           captured |-> captured ] }

NoCapture == [ posts |-> <<>>, selected |-> Absent, body |-> Absent ]

\* loadScheduledPosts, up to the await of fetch
loadScheduledPosts ==
  /\ CalFetch("list", "GET", ScheduledPostsPath, NoCapture)
  /\ UNCHANGED <<scheduledPosts, showScheduleModal, selectedPost, newPost, calMounted,
                 notCalendar>>

\* the mount effect: a first load, and the interval
CalMountEffect ==
  /\ calMounted /\ calEffect
  /\ calEffect' = FALSE
  /\ calInterval' = TRUE
  /\ loadScheduledPosts

\* setInterval(loadScheduledPosts, 30000) fires
CalIntervalFires ==
  /\ calInterval
  /\ loadScheduledPosts
  /\ UNCHANGED <<calEffect, calInterval>>

\* an unmount without the effect's cleanup
CalUnmount_KeepsInterval ==
  /\ calMounted' = FALSE
  /\ calEffect' = FALSE
  /\ calRequests' = {}
  /\ UNCHANGED <<scheduledPosts, showScheduleModal, selectedPost, newPost, calIssued,
                 calInterval, calOutcome>>

\* the component unmounts: the effect's cleanup clears the interval; the
\* requests in flight stay in flight
CalUnmount ==
  /\ calMounted' = FALSE
  /\ calEffect' = FALSE
  /\ calInterval' = FALSE
  /\ calRequests' = {}
  /\ UNCHANGED <<scheduledPosts, showScheduleModal, selectedPost, newPost, calIssued,
                 calOutcome>>

\* the component mounts: fresh state, the mount effect is due
CalMount ==
  /\ scheduledPosts' = <<>>
  /\ showScheduleModal' = FALSE
  /\ selectedPost' = Absent
  /\ newPost' = BlankForm
  /\ calMounted' = TRUE
  /\ calEffect' = TRUE
  /\ UNCHANGED <<calInterval, calRequests, calIssued, calOutcome>>

\* the Schedule Post button of the header
OpenModal ==
  /\ calMounted /\ ~showScheduleModal
  /\ showScheduleModal' = TRUE
  /\ UNCHANGED <<scheduledPosts, selectedPost, newPost, calMounted, calEffect,
                 calInterval, calRequests, calIssued, notCalendar>>

\* the content textarea and the datetime input of the modal
EditForm(content, time) ==
  /\ calMounted /\ showScheduleModal
  /\ newPost' = [ content |-> content, scheduledTime |-> time ]
  /\ UNCHANGED <<scheduledPosts, showScheduleModal, selectedPost, calMounted, calEffect,
                 calInterval, calRequests, calIssued, notCalendar>>

\* a click on a post of the grid
handleEditPost(post) ==
  /\ calMounted /\ ~showScheduleModal
  /\ post \in Range(scheduledPosts)
  /\ selectedPost' = Some(post)
  /\ newPost' = [ content |-> post.content, scheduledTime |-> Slice16(post.scheduled_time) ]
  /\ showScheduleModal' = TRUE
  /\ UNCHANGED <<scheduledPosts, calMounted, calEffect, calInterval, calRequests,
                 calIssued, notCalendar>>

\* the Cancel button of the modal
CancelModal ==
  /\ calMounted /\ showScheduleModal
  /\ showScheduleModal' = FALSE
  /\ selectedPost' = Absent
  /\ newPost' = BlankForm
  /\ UNCHANGED <<scheduledPosts, calMounted, calEffect, calInterval, calRequests,
                 calIssued, notCalendar>>

\* the request body of a create or an update; building it throws, inside the
\* try block and before fetch is called, when the time input is empty
FormBody ==
  IF ToISOString(newPost.scheduledTime) = Absent THEN Absent
  ELSE Some([ content |-> newPost.content,
              scheduled_time |-> The(ToISOString(newPost.scheduledTime)) ])

\* handleSchedulePost, up to the await of fetch
handleSchedulePost ==
  /\ IF FormBody = Absent
     THEN UNCHANGED <<calRequests, calIssued>>
     ELSE CalFetch("create", "POST", SchedulePostPath,
                   [ posts |-> scheduledPosts, selected |-> Absent, body |-> FormBody ])
  /\ UNCHANGED <<scheduledPosts, showScheduleModal, selectedPost, newPost, calMounted,
                 calEffect, calInterval, notCalendar>>

\* handleUpdatePost, up to the await of fetch
handleUpdatePost ==
  /\ IF FormBody = Absent
     THEN UNCHANGED <<calRequests, calIssued>>
     ELSE CalFetch("update", "PUT", ScheduledPostPath(The(selectedPost).id),
                   [ posts |-> scheduledPosts, selected |-> selectedPost, body |-> FormBody ])
  /\ UNCHANGED <<scheduledPosts, showScheduleModal, selectedPost, newPost, calMounted,
                 calEffect, calInterval, notCalendar>>

\* the Schedule / Update button of the modal
SubmitModal ==
  /\ calMounted /\ showScheduleModal
  /\ IF selectedPost # Absent THEN handleUpdatePost ELSE handleSchedulePost

\* the trash button of a post of the grid: handleDeletePost up to the await
handleDeletePost(postId) ==
  /\ calMounted /\ ~showScheduleModal
  /\ postId \in { post.id : post \in Range(scheduledPosts) }
  /\ CalFetch("delete", "DELETE", ScheduledPostPath(postId),
              [ posts |-> scheduledPosts, selected |-> Absent, body |-> Absent ])
  /\ UNCHANGED <<scheduledPosts, showScheduleModal, selectedPost, newPost, calMounted,
                 calEffect, calInterval, notCalendar>>

\* how a fetch of the calendar can end
CalOutcomeKinds == { "throws", "not_ok", "bad_json", "ok" }

\* the state setters a handler of the mounted component calls
CalSetState(posts, modal, selected, form) ==
  /\ scheduledPosts' = posts
  /\ showScheduleModal' = modal
  /\ selectedPost' = selected
  /\ newPost' = form

CalDone(req, kind) ==
  /\ req \in calRequests
  /\ calRequests' = calRequests \ { req }
  /\ calOutcome' = Some([ op |-> req.op, kind |-> kind ])
  /\ UNCHANGED <<calMounted, calEffect, calInterval, calIssued, chatVars, cacheVars,
                 dashVars, anVars, pollVars, appVars, docVars, weekVars, navVars, now>>

\* loadScheduledPosts after its await: data is result.data, when present
CalListSettle(req, kind, data) ==
  /\ CalDone(req, kind) /\ req.op = "list"
  /\ CASE kind = "ok" ->
            CalSetState(IF data = Absent THEN <<>> ELSE The(data),
                        showScheduleModal, selectedPost, newPost)
       [] kind = "not_ok" ->
            UNCHANGED <<scheduledPosts, showScheduleModal, selectedPost, newPost>>
       [] OTHER ->
            CalSetState(<<>>, showScheduleModal, selectedPost, newPost)

\* handleSchedulePost after its await: id is the id the backend gave the post
CalCreateSettle(req, kind, id) ==
  /\ CalDone(req, kind) /\ req.op = "create"
  /\ IF kind = "ok"
     THEN LET body == The(req.captured.body)
          IN CalSetState(Append(req.captured.posts,
                                Post(id, body.content, body.scheduled_time)),
                         FALSE, selectedPost, BlankForm)
     ELSE UNCHANGED <<scheduledPosts, showScheduleModal, selectedPost, newPost>>

\* handleUpdatePost after its await
CalUpdateSettle(req, kind) ==
  /\ CalDone(req, kind) /\ req.op = "update"
  /\ IF kind = "ok"
     THEN LET body == The(req.captured.body)
              id == The(req.captured.selected).id
          IN CalSetState(Replace(req.captured.posts, id,
                                 Post(id, body.content, body.scheduled_time)),
                         FALSE, Absent, BlankForm)
     ELSE UNCHANGED <<scheduledPosts, showScheduleModal, selectedPost, newPost>>

\* a handleDeletePost that drops the post whatever the response
CalDeleteSettle_AlwaysFilters(req, kind) ==
  /\ CalDone(req, kind) /\ req.op = "delete"
  /\ CalSetState(FilterOut(req.captured.posts, The(req.path.id)),
                 showScheduleModal, selectedPost, newPost)

\* handleDeletePost after its await
CalDeleteSettle(req, kind) ==
  /\ CalDone(req, kind) /\ req.op = "delete"
  /\ IF kind = "ok"
     THEN CalSetState(FilterOut(req.captured.posts, The(req.path.id)),
                      showScheduleModal, selectedPost, newPost)
     ELSE UNCHANGED <<scheduledPosts, showScheduleModal, selectedPost, newPost>>

\* ------------------------------------------------------------------ App
\* ids of the navigation entries, in sidebar order
navigation == <<"dashboard", "agents", "calendar", "analytics", "community">>

\* a renderContent without the case for the community tab
renderContent_NoCommunity(tab) ==
  CASE tab = "dashboard" -> "Dashboard"
    [] tab = "agents" -> "AgentChat"
    [] tab = "calendar" -> "ContentCalendar"
    [] tab = "analytics" -> "Analytics"
    [] OTHER -> "Dashboard"

\* the component renderContent returns for a value of activeTab
renderContent(tab) ==
  CASE tab = "dashboard" -> "Dashboard"
    [] tab = "agents" -> "AgentChat"
    [] tab = "calendar" -> "ContentCalendar"
    [] tab = "analytics" -> "Analytics"
    [] tab = "community" -> "Community"
    [] OTHER -> "Dashboard"

\* targets of the Dashboard's quick action buttons
QuickActions == { "agents", "analytics", "calendar", "community" }

\* the first render: the Dashboard is mounted and its mount effect has set
\* the start timer and the interval
AppInit ==
  /\ activeTab = "dashboard"
  /\ dashMounted = TRUE
  /\ dashInterval = TRUE
  /\ nextPost = Absent
  /\ nextPostCalls = {}
  /\ nextPostIssued = 0
  /\ orphans = {}

\* cleanup of the Dashboard's mount effect: clearTimeout, clearInterval
DashUnmount ==
  /\ dashMounted' = FALSE
  /\ dashTimer' = FALSE
  /\ dashInterval' = FALSE
  /\ dashCalls' = {}
  /\ nextPostCalls' = {}
  /\ UNCHANGED <<dashLoading, loadingProgress, dashError, dataLoaded, dashData, nextPost,
                 dashLoads, dashStarted, nextPostIssued>>

\* a new Dashboard mounts and its mount effect runs
DashMount ==
  /\ dashMounted' = TRUE
  /\ dashLoading' = FALSE
  /\ loadingProgress' = 0
  /\ dashError' = Absent
  /\ dataLoaded' = FALSE
  /\ dashData' = NULL
  /\ nextPost' = Absent
  /\ dashTimer' = TRUE
  /\ dashInterval' = TRUE
  /\ UNCHANGED <<dashCalls, dashLoads, dashStarted, nextPostCalls, nextPostIssued>>

\* the requests an unmounting component leaves in flight
Orphaned(component) ==
  CASE component = "Dashboard" ->
         { [ from |-> "fetchInstagramData", seq |-> call.id ] : call \in dashCalls }
           \cup { [ from |-> "fetchNextScheduledPost", seq |-> call.id ] :
                    call \in nextPostCalls }
    [] component = "ContentCalendar" ->
         { [ from |-> req.op, seq |-> req.seq ] : req \in calRequests }
    [] OTHER -> {}

\* setActiveTab(id) and the render that follows it
setActiveTab(id) ==
  LET old == renderContent(activeTab)
      new == renderContent(id)
  IN /\ activeTab' = id
     /\ orphans' = orphans \cup (IF old # new THEN Orphaned(old) ELSE {})
     /\ IF old # new /\ old = "Dashboard" THEN DashUnmount
        ELSE IF old # new /\ new = "Dashboard" THEN DashMount
        ELSE UNCHANGED <<dashVars, pollVars, dashMounted, dashInterval, nextPost>>
     /\ IF old # new /\ old = "ContentCalendar" THEN CalUnmount
        ELSE IF old # new /\ new = "ContentCalendar" THEN CalMount
        ELSE UNCHANGED calVars
     /\ UNCHANGED <<chatVars, cacheVars, anVars, docVars, weekVars, navVars, now>>

\* a click on an entry of the sidebar
SidebarClick(id) == setActiveTab(id)

\* a quick action button of the Dashboard: onNavigate && onNavigate(target)
QuickAction(target) ==
  /\ dashMounted /\ DashboardView = "dashboard"
  /\ setActiveTab(target)

\* setInterval(fetchNextScheduledPost, 30000) fires
DashIntervalFires ==
  /\ dashInterval
  /\ fetchNextScheduledPost
  /\ UNCHANGED <<dashVars, cacheVars, chatVars, anVars, calVars, appVars, docVars, weekVars, navVars, now>>

\* bodies of GET /api/scheduled-posts as fetchNextScheduledPost reads them
ScheduledBodies ==
  { Absent,
    Some(<<>>),
    Some(<<[ status |-> "published", scheduled_time |-> MaxClock ],
           [ status |-> "scheduled", scheduled_time |-> 0 ]>>),
    Some(<<[ status |-> "scheduled", scheduled_time |-> MaxClock + 2 ],
           [ status |-> "scheduled", scheduled_time |-> MaxClock + 1 ]>>) }

\* the posts fetchNextScheduledPost keeps: scheduled and still to come
FuturePosts(posts) ==
  { post \in Range(posts) : post.status = "scheduled" /\ post.scheduled_time > now }

\* futurePosts[0] after the sort by scheduled_time
Earliest(posts) ==
  CHOOSE post \in posts : \A other \in posts : post.scheduled_time <= other.scheduled_time

\* fetchNextScheduledPost after its await
NextPostSettle(call, kind, data) ==
  /\ call \in nextPostCalls
  /\ nextPostCalls' = nextPostCalls \ { call }
  /\ nextPost' =
       CASE kind = "ok" ->
              LET futurePosts == FuturePosts(IF data = Absent THEN <<>> ELSE The(data))
              IN IF futurePosts # {}
                 THEN Some([ scheduledFor |-> Earliest(futurePosts).scheduled_time,
                             status |-> "scheduled" ])
                 ELSE Absent
         [] kind = "not_ok" -> nextPost
         [] OTHER -> Absent
  /\ UNCHANGED <<dashVars, cacheVars, chatVars, anVars, calVars, nextPostIssued,
                 activeTab, dashMounted, dashInterval, orphans, docVars, weekVars, navVars, now>>

\* a request of an unmounted component ends: its state setters do nothing;
\* a dashboard load that succeeds still writes the cache
OrphanSettle(orphan, kind, result) ==
  /\ orphan \in orphans
  /\ orphans' = orphans \ { orphan }
  /\ IF orphan.from = "fetchInstagramData" /\ kind = "ok" /\ result.success
     THEN /\ cache' = CacheAfterSet(cache, expiry, "dashboard_data", result, DashboardTTL).cache
          /\ expiry' = CacheAfterSet(cache, expiry, "dashboard_data", result, DashboardTTL).expiry
          /\ lastSet' = MapSet(lastSet, "dashboard_data",
                               [ value |-> result, at |-> now, ttl |-> Some(DashboardTTL) ])
     ELSE UNCHANGED <<cache, expiry, lastSet>>
  /\ UNCHANGED <<chatVars, gosPending, gosDone, cacheSeq, dashVars, anVars, calVars,
                 pollVars, activeTab, dashMounted, dashInterval, nextPost, docVars, weekVars, navVars, now>>

\* ------------------------------------------- documented workflow graph
Edge(from, to, label, style) ==
  [ from |-> from, to |-> to, label |-> label, style |-> style ]

\* graph TD with Content handing over to Publishing, not to Compliance
Edges_SkipCompliance ==
  { Edge("START", "ORCHESTRATOR", "", "solid"),
    Edge("ORCHESTRATOR", "ROUTER", "", "solid"),
    Edge("ROUTER", "STRATEGY", "Direct/Sequential", "solid"),
    Edge("ROUTER", "CONTENT", "Direct", "solid"),
    Edge("ROUTER", "PUBLISHING", "Direct", "solid"),
    Edge("ROUTER", "COMMUNITY", "Direct", "solid"),
    Edge("ROUTER", "LISTENING", "Direct", "solid"),
    Edge("ROUTER", "ANALYTICS", "Direct", "solid"),
    Edge("ROUTER", "CRISIS", "Direct", "solid"),
    Edge("ROUTER", "INFLUENCER", "Direct", "solid"),
    Edge("ROUTER", "PAID_SOCIAL", "Direct", "solid"),
    Edge("ROUTER", "COMPLIANCE", "Direct", "solid"),
    Edge("ROUTER", "PARALLEL_COORD", "Parallel", "solid"),
    Edge("PARALLEL_COORD", "PARALLEL_EXEC", "", "solid"),
    Edge("PARALLEL_EXEC", "AGGREGATE", "", "solid"),
    Edge("STRATEGY", "CONTENT", "", "solid"),
    Edge("CONTENT", "PUBLISHING", "", "solid"),
    Edge("COMPLIANCE", "PUBLISHING", "Passed", "solid"),
    Edge("COMPLIANCE", "CONTENT", "Failed", "solid"),
    Edge("PUBLISHING", "LISTENING", "", "solid"),
    Edge("STRATEGY", "HUMAN", "Review Needed", "dotted"),
    Edge("CONTENT", "HUMAN", "Review Needed", "dotted"),
    Edge("CRISIS", "HUMAN", "High Priority", "dotted"),
    Edge("HUMAN", "APPLY_FEEDBACK", "", "solid"),
    Edge("APPLY_FEEDBACK", "ROUTER", "", "solid"),
    Edge("STRATEGY", "ERROR", "Error", "dotted"),
    Edge("CONTENT", "ERROR", "Error", "dotted"),
    Edge("PUBLISHING", "ERROR", "Error", "dotted"),
    Edge("ERROR", "HUMAN", "", "solid"),
    Edge("LISTENING", "PREPARE", "", "solid"),
    Edge("AGGREGATE", "PREPARE", "", "solid"),
    Edge("PREPARE", "COMPLETE", "", "solid") }

\* the edges of graph TD, solid (-->) and dotted (-.->)
Edges ==
  { Edge("START", "ORCHESTRATOR", "", "solid"),
    Edge("ORCHESTRATOR", "ROUTER", "", "solid"),
    Edge("ROUTER", "STRATEGY", "Direct/Sequential", "solid"),
    Edge("ROUTER", "CONTENT", "Direct", "solid"),
    Edge("ROUTER", "PUBLISHING", "Direct", "solid"),
    Edge("ROUTER", "COMMUNITY", "Direct", "solid"),
    Edge("ROUTER", "LISTENING", "Direct", "solid"),
    Edge("ROUTER", "ANALYTICS", "Direct", "solid"),
    Edge("ROUTER", "CRISIS", "Direct", "solid"),
    Edge("ROUTER", "INFLUENCER", "Direct", "solid"),
    Edge("ROUTER", "PAID_SOCIAL", "Direct", "solid"),
    Edge("ROUTER", "COMPLIANCE", "Direct", "solid"),
    Edge("ROUTER", "PARALLEL_COORD", "Parallel", "solid"),
    Edge("PARALLEL_COORD", "PARALLEL_EXEC", "", "solid"),
    Edge("PARALLEL_EXEC", "AGGREGATE", "", "solid"),
    Edge("STRATEGY", "CONTENT", "", "solid"),
    Edge("CONTENT", "COMPLIANCE", "", "solid"),
    Edge("COMPLIANCE", "PUBLISHING", "Passed", "solid"),
    Edge("COMPLIANCE", "CONTENT", "Failed", "solid"),
    Edge("PUBLISHING", "LISTENING", "", "solid"),
    Edge("STRATEGY", "HUMAN", "Review Needed", "dotted"),
    Edge("CONTENT", "HUMAN", "Review Needed", "dotted"),
    Edge("CRISIS", "HUMAN", "High Priority", "dotted"),
    Edge("HUMAN", "APPLY_FEEDBACK", "", "solid"),
    Edge("APPLY_FEEDBACK", "ROUTER", "", "solid"),
    Edge("STRATEGY", "ERROR", "Error", "dotted"),
    Edge("CONTENT", "ERROR", "Error", "dotted"),
    Edge("PUBLISHING", "ERROR", "Error", "dotted"),
    Edge("ERROR", "HUMAN", "", "solid"),
    Edge("LISTENING", "PREPARE", "", "solid"),
    Edge("AGGREGATE", "PREPARE", "", "solid"),
    Edge("PREPARE", "COMPLETE", "", "solid") }

GraphNodes == { edge.from : edge \in Edges } \cup { edge.to : edge \in Edges }

\* the node the workflow is at
CurrentNode == IF graphPath = <<>> THEN "START" ELSE graphPath[Len(graphPath)].to

GraphInit == graphPath = <<>>

\* the workflow follows an edge out of its current node
FollowEdge(edge) ==
  /\ edge \in Edges
  /\ edge.from = CurrentNode
  /\ graphPath' = Append(graphPath, edge)
  /\ UNCHANGED <<chatVars, cacheVars, dashVars, anVars, calVars, pollVars, appVars, weekVars, navVars, now>>

\* ------------------------------------------- ContentCalendar: the month grid
\* A Date is the number of its day, counted from 1 January 1970; the time
\* of day plays no part in the grid.
EpochYear == 1970

\* getDay() of 1 January 1970, a Thursday
EpochWeekday == 4

Years == EpochYear..(EpochYear + 130)

IsLeapYear(year) == (year % 4 = 0 /\ year % 100 # 0) \/ year % 400 = 0

\* the leap years up to and including a year
LeapYearsTo(year) == (year \div 4) - (year \div 100) + (year \div 400)

\* the days from the epoch to 1 January of a year
DaysBeforeYear(year) ==
  365 * (year - EpochYear) + LeapYearsTo(year - 1) - LeapYearsTo(EpochYear - 1)

\* the length of month 0..11 of a year
MonthLength(year, month) ==
  IF month = 1 THEN (IF IsLeapYear(year) THEN 29 ELSE 28)
  ELSE IF month \in { 3, 5, 8, 10 } THEN 30
  ELSE 31

RECURSIVE DaysBeforeMonth(_, _)
\* the days from 1 January of a year to the 1st of its month 0..11
DaysBeforeMonth(year, month) ==
  IF month = 0 THEN 0
  ELSE DaysBeforeMonth(year, month - 1) + MonthLength(year, month - 1)

\* new Date(year, monthIndex, day): a month outside 0..11 and a day outside
\* the month carry over
NewDate(year, monthIndex, day) ==
  LET y == year + (monthIndex \div 12)
      m == monthIndex % 12
  IN  DaysBeforeYear(y) + DaysBeforeMonth(y, m) + day - 1

getFullYear(date) ==
  CHOOSE y \in Years : DaysBeforeYear(y) <= date /\ date < DaysBeforeYear(y + 1)

getMonth(date) ==
  LET y == getFullYear(date)
  IN  CHOOSE m \in 0..11 :
        /\ NewDate(y, m, 1) <= date
        /\ date < NewDate(y, m, 1) + MonthLength(y, m)

getDate(date) == date - NewDate(getFullYear(date), getMonth(date), 1) + 1

getDay(date) == (date + EpochWeekday) % 7

\* new Date() when the calendar mounts
MountDate == NewDate(2024, 0, 15)

\* a getDaysInMonth that pads up to and including the first weekday
getDaysInMonth_PadsOneMore(date) ==
  LET year == getFullYear(date)
      month == getMonth(date)
      firstDay == NewDate(year, month, 1)
      lastDay == NewDate(year, month + 1, 0)
      daysInMonth == getDate(lastDay)
      startingDayOfWeek == getDay(firstDay)
  IN  [ i \in 1..(startingDayOfWeek + 1) |-> Absent ]
        \o [ day \in 1..daysInMonth |-> Some(NewDate(year, month, day)) ]

\* the cells of the grid: null (Absent) or a date
getDaysInMonth(date) ==
  LET year == getFullYear(date)
      month == getMonth(date)
      firstDay == NewDate(year, month, 1)
      lastDay == NewDate(year, month + 1, 0)
      daysInMonth == getDate(lastDay)
      startingDayOfWeek == getDay(firstDay)
  IN  [ i \in 1..startingDayOfWeek |-> Absent ]
        \o [ day \in 1..daysInMonth |-> Some(NewDate(year, month, day)) ]

\* const weekDays: the header of the 7 columns
weekDays == <<"Sun", "Mon", "Tue", "Wed", "Thu", "Fri", "Sat">>

\* months counted from year 0
MonthIndex(date) == 12 * getFullYear(date) + getMonth(date)

MonthInit == currentDate = MountDate

notMonth ==
  <<chatVars, cacheVars, dashVars, anVars, calVars, pollVars, appVars, docVars, weekVars,
    now>>

\* the arrow buttons of the calendar navigation
PreviousMonth ==
  /\ MonthIndex(MountDate) - MonthIndex(currentDate) < MaxMonths
  /\ currentDate' = NewDate(getFullYear(currentDate), getMonth(currentDate) - 1, 1)
  /\ UNCHANGED notMonth

NextMonth ==
  /\ MonthIndex(currentDate) - MonthIndex(MountDate) < MaxMonths
  /\ currentDate' = NewDate(getFullYear(currentDate), getMonth(currentDate) + 1, 1)
  /\ UNCHANGED notMonth

\* ------------------------------------- Dashboard: weekly performance chart
\* toLocaleDateString('en-US', { weekday: 'short' }), by Date.getDay()
WeekdayNames == <<"Sun", "Mon", "Tue", "Wed", "Thu", "Fri", "Sat">>

\* Days are numbered from an epoch day that was a Sunday.
WeekdayOf(day) == WeekdayNames[(day % Len(WeekdayNames)) + 1]

\* the day the Dashboard is mounted on: a Saturday
FirstDay == Len(WeekdayNames) - 1

\* for (let i = 6; i >= 0; i--): the days from 6 days ago to today
WindowDays == 7

DayOfBucket(i) == today - (WindowDays - i)

\* An entry of the chart. reach and impressions are carried like engagement
\* and left out; views, which needs the per-post insights, is left out too.
ChartEntry(name, engagement) == [ name |-> name, engagement |-> engagement ]

\* loadDefaultData's emptyData, and the template of ensureSevenDays
Template == [ i \in 1..WindowDays |-> ChartEntry(WeekdayOf(DayOfBucket(i)), 0) ]

\* A media post: its timestamp is the day it was published on, if it has one.
MediaPost(id, timestamp, likes, comments) ==
  [ id |-> id, timestamp |-> timestamp, like_count |-> likes, comments_count |-> comments ]

\* media.data.data of the dashboard results the backend answers with
MediaLists ==
  { <<>>,
    <<MediaPost(1, Some(6), 2, 1)>>,
    <<MediaPost(2, Some(7), 1, 0), MediaPost(1, Some(6), 2, 1)>>,
    <<MediaPost(3, Absent, 4, 0), MediaPost(4, Some(0), 1, 1)>> }

\* result.data of /dashboard/data, as far as the chart depends on it
WeekResults == [ account : BOOLEAN, media : BOOLEAN, data : MediaLists ]

\* an item of /instagram/insights/performance: a name, or a date field given
\* by its day, and an engagement figure
PerformanceItem(name, date, engagement) ==
  [ name |-> name, date |-> date, engagement |-> engagement ]

CalendarWeek ==
  [ i \in 1..WindowDays |-> PerformanceItem(WeekdayNames[i], Absent, i) ]

\* the bodies /instagram/insights/performance answers with
PerformanceBodies ==
  { [ success |-> FALSE, data |-> <<>> ],
    [ success |-> TRUE, data |-> <<>> ],
    [ success |-> TRUE, data |-> <<PerformanceItem("Mon", Absent, 3)>> ],
    [ success |-> TRUE,
      data |-> <<PerformanceItem("", Some(6), 5), PerformanceItem("", Absent, 2)>> ],
    [ success |-> TRUE, data |-> CalendarWeek ],
    [ success |-> TRUE,
      data |-> [ i \in 1..WindowDays |-> PerformanceItem("Mon", Absent, 1) ] ] }

\* a JavaScript value handed to ensureSevenDays
ArrayOf(items) == [ array |-> TRUE, items |-> items ]

normalizePerformanceData(arr) ==
  [ i \in 1..Len(arr) |->
      ChartEntry(IF arr[i].name # "" THEN arr[i].name
                 ELSE IF arr[i].date # Absent THEN WeekdayOf(The(arr[i].date))
                 ELSE "",
                 arr[i].engagement) ]

\* mapByName[name]: the last item of that name, if any
LastNamed(items, name) ==
  LET at == { i \in 1..Len(items) : items[i].name = name }
  IN  IF at = {} THEN Absent
      ELSE Some(items[CHOOSE i \in at : \A j \in at : j <= i])

ensureSevenDays(dataArr) ==
  IF ~dataArr.array THEN <<>>
  ELSE IF Len(dataArr.items) = WindowDays THEN dataArr.items
  ELSE [ i \in 1..WindowDays |->
           LET src == LastNamed(dataArr.items, Template[i].name)
           IN  IF src = Absent THEN Template[i]
               ELSE ChartEntry(Template[i].name, The(src).engagement) ]

RECURSIVE EngagementOn(_, _)
\* the likes and comments of the posts published on a day
EngagementOn(posts, day) ==
  IF posts = <<>> THEN 0
  ELSE (IF Head(posts).timestamp = Some(day)
        THEN Head(posts).like_count + Head(posts).comments_count
        ELSE 0) + EngagementOn(Tail(posts), day)

computeWeeklyFromPosts(posts) ==
  [ i \in 1..WindowDays |->
      ChartEntry(WeekdayOf(DayOfBucket(i)), EngagementOn(posts, DayOfBucket(i))) ]

WeekInit ==
  /\ today = FirstDay
  /\ allPosts = <<>>
  /\ analyticsData = Template
  /\ weekError = FALSE
  /\ weekTimer = TRUE
  /\ weekLoads = {}
  /\ chartSet = Absent
  /\ weekStarted = 0

notWeek == <<chatVars, cacheVars, dashVars, anVars, calVars, pollVars, appVars, docVars, navVars, now>>

\* fetchInstagramData is called through a function object of some render:
\* every state variable its body and the functions it calls read is the
\* value of that render.
WeekLoad(closure) ==
  /\ weekStarted' = weekStarted + 1
  /\ weekLoads' = weekLoads \cup
       { [ id |-> weekStarted + 1, stage |-> "data", allPosts |-> closure,
           posts |-> <<>> ] }

\* the mount effect's timer calls the fetchInstagramData of the first render
WeekTimerFires ==
  /\ weekTimer
  /\ weekTimer' = FALSE
  /\ WeekLoad(<<>>)
  /\ UNCHANGED <<allPosts, analyticsData, weekError, chartSet, today, notWeek>>

\* Retry calls the fetchInstagramData of the render that drew the error view
WeekRetryClick ==
  /\ weekError
  /\ WeekLoad(allPosts)
  /\ UNCHANGED <<allPosts, analyticsData, weekError, weekTimer, chartSet, today, notWeek>>

\* the load ends in the catch block
WeekLoadFails(load) ==
  /\ load \in weekLoads
  /\ load.stage = "data"
  /\ weekLoads' = weekLoads \ { load }
  /\ weekError' = TRUE
  /\ UNCHANGED <<allPosts, analyticsData, weekTimer, chartSet, weekStarted, today, notWeek>>

\* the posts processDashboardData passes to setAllPosts
PostsOf(result) == IF result.media /\ Len(result.data) > 0 THEN result.data ELSE <<>>

\* a dashboard result reaches processDashboardData
processDashboardData(load, result) ==
  /\ load \in weekLoads
  /\ load.stage = "data"
  /\ IF result.account
       THEN /\ allPosts' = IF PostsOf(result) # <<>> THEN PostsOf(result) ELSE allPosts
            /\ weekLoads' = (weekLoads \ { load }) \cup
                 { [ load EXCEPT !.stage = "insights", !.posts = PostsOf(result) ] }
       ELSE /\ weekLoads' = weekLoads \ { load }
            /\ UNCHANGED allPosts
  /\ UNCHANGED <<analyticsData, weekError, weekTimer, chartSet, weekStarted, today, notWeek>>

WeekOutcomes == { "throws", "not_ok", "bad_json", "ok" }

Usable(body) == body.success /\ Len(body.data) > 0

WeekChart(load, source, chart) ==
  /\ analyticsData' = chart
  /\ chartSet' =
       Some([ id |-> load.id, source |-> source, posts |-> load.posts,
              today |-> today, chart |-> chart ])

\* /instagram/insights/performance answers the fetchWeeklyInsights of a load
fetchWeeklyInsights(load, kind, body) ==
  /\ load \in weekLoads
  /\ load.stage = "insights"
  /\ weekLoads' = weekLoads \ { load }
  /\ IF kind \in { "throws", "bad_json" }
       THEN UNCHANGED <<analyticsData, chartSet>>
       ELSE IF kind = "ok" /\ Usable(body)
         THEN WeekChart(load, "server",
                        ensureSevenDays(ArrayOf(normalizePerformanceData(body.data))))
         ELSE WeekChart(load, "fallback",
                        ensureSevenDays(ArrayOf(computeWeeklyFromPosts(load.allPosts))))
  /\ UNCHANGED <<allPosts, weekError, weekTimer, weekStarted, today, notWeek>>

\* midnight passes
DayPasses ==
  /\ today < MaxDay
  /\ today' = today + 1
  /\ UNCHANGED <<allPosts, analyticsData, weekError, weekTimer, weekLoads, chartSet,
                 weekStarted, notWeek>>

ChatInit ==
  /\ messages = <<>>
  /\ inputMessage = <<>>
  /\ isLoading = FALSE
  /\ currentWorkflow = NULL
  /\ agentQueue = <<>>
  /\ completedAgents = <<>>
  /\ chatInflight = {}
  /\ chatIssued = <<>>
  /\ chatReplies = <<>>

\* textarea onChange (the textarea is disabled while isLoading)
TypeInput(text) ==
  /\ ~isLoading
  /\ inputMessage' = text
  /\ UNCHANGED <<messages, isLoading, currentWorkflow, agentQueue,
                 completedAgents, chatInflight, chatIssued, chatReplies, now, notChat>>

\* quick prompt button
QuickPrompt(prompt) ==
  /\ inputMessage' = prompt
  /\ UNCHANGED <<messages, isLoading, currentWorkflow, agentQueue,
                 completedAgents, chatInflight, chatIssued, chatReplies, now, notChat>>

\* sendMessage without the isLoading test of its guard
sendMessage_NoLoadingGuard ==
  IF Trim(inputMessage) = <<>>
  THEN UNCHANGED vars
  ELSE /\ messages' = Append(messages, UserMessage(now, inputMessage))
       /\ inputMessage' = <<>>
       /\ isLoading' = TRUE
       /\ currentWorkflow' = NULL
       /\ agentQueue' = <<>>
       /\ completedAgents' = <<>>
       /\ chatInflight' = chatInflight \cup
            { [ seq |-> Len(chatIssued) + 1,
                body |-> ChatRequest(now, inputMessage) ] }
       /\ chatIssued' = Append(chatIssued, ChatRequest(now, inputMessage))
       /\ UNCHANGED <<chatReplies, now, notChat>>

\* sendMessage, up to the await of fetch
sendMessage ==
  IF Trim(inputMessage) = <<>> \/ isLoading
  THEN UNCHANGED vars
  ELSE /\ messages' = Append(messages, UserMessage(now, inputMessage))
       /\ inputMessage' = <<>>
       /\ isLoading' = TRUE
       /\ currentWorkflow' = NULL
       /\ agentQueue' = <<>>
       /\ completedAgents' = <<>>
       /\ chatInflight' = chatInflight \cup
            { [ seq |-> Len(chatIssued) + 1,
                body |-> ChatRequest(now, inputMessage) ] }
       /\ chatIssued' = Append(chatIssued, ChatRequest(now, inputMessage))
       /\ UNCHANGED <<chatReplies, now, notChat>>

\* sendMessage, from the settling of fetch to the end of finally
ChatSettle(D) ==
  \E req \in chatInflight, o \in ChatOutcomes(D) :
    /\ chatInflight' = chatInflight \ { req }
    /\ chatReplies' = Append(chatReplies, [ seq |-> req.seq, kind |-> o.kind, data |-> o.data ])
    /\ IF o.kind = "ok"
       THEN LET data == The(o.data)
            IN /\ currentWorkflow' = data.workflow_type
               /\ agentQueue' = OrEmpty(data.agent_queue)
               /\ completedAgents' = AgentsOf(data.agent_responses)
               /\ messages' = Append(messages, BotMessage(now, data))
       ELSE /\ messages' = Append(messages, ErrorMessage(now))
            /\ UNCHANGED <<currentWorkflow, agentQueue, completedAgents>>
    /\ isLoading' = FALSE
    /\ UNCHANGED <<inputMessage, chatIssued, now, notChat>>

Init ==
  /\ ChatInit
  /\ CacheInit
  /\ DashInit
  /\ AnalyticsInit
  /\ CalendarInit
  /\ AppInit
  /\ GraphInit
  /\ WeekInit
  /\ MonthInit
  /\ now = 0

\* the clock advances
Tick ==
  /\ now < MaxTime
  /\ now' = now + 1
  /\ UNCHANGED <<chatVars, cacheVars, dashVars, anVars, calVars, pollVars, appVars, docVars, weekVars, navVars>>

\* one mounted AgentChat and its backend
ChatNext ==
  \/ Tick
  \/ \E text \in InputTexts : TypeInput(text)
  \/ \E prompt \in quickPrompts : QuickPrompt(prompt)
  \/ Len(chatIssued) < MaxSends /\ sendMessage
  \/ ChatSettle(ChatDataSample)

SpecChat == Init /\ [][ChatNext]_vars

\* the cache singleton called synchronously
CacheNext ==
  \/ \E d \in ClockSteps : Advance(d)
  \/ \E key \in CacheKeys, value \in CacheValues, ttlArg \in TtlArgs :
       CacheSet(key, value, ttlArg)
  \/ \E key \in CacheKeys : CacheGet(key)
  \/ \E key \in CacheKeys : CacheHas(key)
  \/ CacheClear

SpecCache == Init /\ [][CacheNext]_vars

\* getOrSet calls whose asyncFn settles at any later time
GetOrSetNext ==
  \/ \E d \in ClockSteps : Advance(d)
  \/ \E key \in CacheKeys, ttlArg \in TtlArgs :
       Cardinality(gosPending) + Cardinality(gosDone) < MaxCalls /\ GetOrSetStart(key, ttlArg)
  \/ \E call \in gosPending, result \in CacheValues : GetOrSetResolve(call, result)
  \/ \E call \in gosPending : GetOrSetReject(call)

SpecGetOrSet == Init /\ [][GetOrSetNext]_vars

\* one mounted Dashboard loading its data, the cache and the backend (the
\* answers to fetchNextScheduledPost are followed in SpecApp)
DashNext ==
  \/ \E d \in ClockSteps : Advance(d)
  \/ DashTimerFires
  \/ dashStarted < MaxLoads /\ RetryClick
  \/ \E call \in dashCalls, err \in FetchErrors \cup { HttpError } : DashFetchFails(call, err)
  \/ \E call \in dashCalls : DashFetchOk(call)
  \/ \E call \in dashCalls : DashJsonFails(call)
  \/ \E call \in dashCalls, result \in DashResults : DashJsonOk(call, result)

SpecDash == Init /\ [][DashNext]_vars

\* one mounted Analytics and the backend
AnalyticsNext ==
  \/ anStarted < MaxLoads /\ AnEffectRuns
  \/ anStarted < MaxLoads /\ AnRetryClick
  \/ \E range \in timeRanges : SetTimeRange(range)
  \/ \E call \in anCalls, err \in AnErrors : AnCallThrows(call, err)
  \/ \E call \in anCalls, response \in AnResponses : AnCallReturns(call, response)
  \/ \E call \in anCalls, insights \in AnResponses : AnFinish(call, insights)

SpecAnalytics == Init /\ [][AnalyticsNext]_vars

\* one mounted ContentCalendar, its user and the backend
CalendarNext ==
  \/ Len(calIssued) < MaxCalRequests /\ CalMountEffect
  \/ Len(calIssued) < MaxCalRequests /\ CalIntervalFires
  \/ OpenModal
  \/ \E content \in ContentTexts, time \in InputTimes \cup { "" } :
       EditForm(content, time)
  \/ \E post \in Range(scheduledPosts) : handleEditPost(post)
  \/ CancelModal
  \/ Len(calIssued) < MaxCalRequests /\ SubmitModal
  \/ \E postId \in PostIds : Len(calIssued) < MaxCalRequests /\ handleDeletePost(postId)
  \/ \E req \in calRequests, kind \in CalOutcomeKinds,
        data \in { Absent } \cup { Some(list) : list \in ServerLists } :
       CalListSettle(req, kind, data)
  \/ \E req \in calRequests, kind \in CalOutcomeKinds, id \in PostIds :
       CalCreateSettle(req, kind, id)
  \/ \E req \in calRequests, kind \in CalOutcomeKinds : CalUpdateSettle(req, kind)
  \/ \E req \in calRequests, kind \in CalOutcomeKinds : CalDeleteSettle(req, kind)

SpecCalendar == Init /\ [][CalendarNext]_vars

\* the App as it starts: the Dashboard tab is shown, no calendar is mounted
AppStart ==
  /\ ChatInit
  /\ CacheInit
  /\ DashInit
  /\ AnalyticsInit
  /\ scheduledPosts = <<>>
  /\ showScheduleModal = FALSE
  /\ selectedPost = Absent
  /\ newPost = BlankForm
  /\ calMounted = FALSE
  /\ calEffect = FALSE
  /\ calInterval = FALSE
  /\ calRequests = {}
  /\ calIssued = <<>>
  /\ calOutcome = Absent
  /\ AppInit
  /\ GraphInit
  /\ WeekInit
  /\ MonthInit
  /\ now = 0

\* n more requests may be started
Budget(n) == dashStarted + nextPostIssued + Len(calIssued) + n <= MaxAppRequests

\* the App, its user, the timers of the Dashboard and the calendar, and the
\* backend
AppNext ==
  \/ \E id \in Range(navigation) : SidebarClick(id)
  \/ \E target \in QuickActions : QuickAction(target)
  \/ Budget(2) /\ DashTimerFires
  \/ Budget(1) /\ DashIntervalFires
  \/ \E call \in nextPostCalls, kind \in CalOutcomeKinds, data \in ScheduledBodies :
       NextPostSettle(call, kind, data)
  \/ Budget(1) /\ dashMounted /\ RetryClick
  \/ \E call \in dashCalls, err \in FetchErrors \cup { HttpError } : DashFetchFails(call, err)
  \/ \E call \in dashCalls : DashFetchOk(call)
  \/ \E call \in dashCalls : DashJsonFails(call)
  \/ \E call \in dashCalls, result \in DashResults : DashJsonOk(call, result)
  \/ \E orphan \in orphans, kind \in CalOutcomeKinds, result \in DashResults :
       OrphanSettle(orphan, kind, result)
  \/ Budget(1) /\ CalMountEffect
  \/ Budget(1) /\ CalIntervalFires
  \/ \E req \in calRequests, kind \in CalOutcomeKinds,
        data \in { Absent } \cup { Some(list) : list \in ServerLists } :
       CalListSettle(req, kind, data)

SpecApp == AppStart /\ [][AppNext]_vars

\* a run of the documented workflow from User Input
GraphNext == \E edge \in Edges : Len(graphPath) < MaxPath /\ FollowEdge(edge)

SpecGraph == Init /\ [][GraphNext]_vars

\* the weekly chart of one mounted Dashboard, its user and its backend
WeekNext ==
  \/ WeekTimerFires
  \/ weekStarted < MaxWeekLoads /\ WeekRetryClick
  \/ \E load \in weekLoads : WeekLoadFails(load)
  \/ \E load \in weekLoads, result \in WeekResults : processDashboardData(load, result)
  \/ \E load \in weekLoads, kind \in WeekOutcomes, body \in PerformanceBodies :
       fetchWeeklyInsights(load, kind, body)
  \/ DayPasses

SpecWeekly == Init /\ [][WeekNext]_vars

\* the user leafs through the months of the calendar
MonthNext == PreviousMonth \/ NextMonth

SpecMonth == Init /\ [][MonthNext]_vars

\* the first request of a chat, answered with any response body
ProgressNext ==
  \/ \E prompt \in quickPrompts : QuickPrompt(prompt)
  \/ chatIssued = <<>> /\ sendMessage
  \/ ChatSettle(ChatData)

SpecProgress == Init /\ [][ProgressNext]_vars
\* ------------------------------------------------------ claims: AgentChat
IsBlank(text) == Trim(text) = <<>>

IsPrefix(s, t) == Len(s) <= Len(t) /\ SubSeq(t, 1, Len(s)) = s

\* what AgentChat renders above the messages
ProgressView == WorkflowProgress(currentWorkflow, agentQueue, completedAgents)

ProgressShown == ProgressView # Absent

\* the status shown at queue position i
StatusAt(i) == The(ProgressView)[i]

C2_OneSessionId ==
  \A i, j \in DOMAIN chatIssued : chatIssued[i].session_id = chatIssued[j].session_id

\* the k-th settled request is the k-th issued one
RepliesInOrder == \A k \in DOMAIN chatReplies : chatReplies[k].seq = k

\* the bot message the k-th reply must have produced
ExpectedReply(k) ==
  IF chatReplies[k].kind = "ok"
  THEN [ content |-> The(chatReplies[k].data).final_response, isError |-> FALSE ]
  ELSE [ content |-> ApologyText, isError |-> TRUE ]

C3_Shape ==
  /\ RepliesInOrder
  /\ Len(messages) = Len(chatIssued) + Len(chatReplies)
  /\ isLoading = (Len(chatIssued) > Len(chatReplies))
  /\ \A k \in DOMAIN chatIssued :
       /\ messages[2 * k - 1].type = "user"
       /\ messages[2 * k - 1].content = chatIssued[k].message
  /\ \A k \in DOMAIN chatReplies :
       /\ messages[2 * k].type = "bot"
       /\ messages[2 * k].content = ExpectedReply(k).content
       /\ messages[2 * k].isError = ExpectedReply(k).isError

\* C3: each accepted send appends one user message, its settling appends one
\* bot message right after it (final_response, or the flagged apology when the
\* request failed) and clears isLoading; messages are only ever appended.
C3_OneReplyPerSend ==
  /\ []C3_Shape
  /\ [][IsPrefix(messages, messages')]_vars

\* a failed and a successful exchange, both complete
C3_Witness ==
  /\ Len(chatReplies) = 2
  /\ chatReplies[1].kind = "not_ok"
  /\ chatReplies[2].kind = "ok"
  /\ Len(messages) = 4
  /\ ~isLoading

\* the body of the response that set the workflow state, when there is one
LastData ==
  IF ~isLoading /\ chatReplies # <<>> /\ chatReplies[Len(chatReplies)].kind = "ok"
  THEN chatReplies[Len(chatReplies)].data
  ELSE Absent

Shown(data) == data.workflow_type \notin { NULL, "direct" }

Positions(data) == 1..Len(OrEmpty(data.agent_queue))

\* C4: when the indicator is shown, each queue position is completed iff its
\* agent occurs in agent_responses, else current iff its index equals the
\* number of agent_responses, else pending; at most one position is current.
C4_ThreeStates ==
  \A data \in LastData :
    Shown(data) =>
      LET queue == OrEmpty(data.agent_queue)
          ran == Range(AgentsOf(data.agent_responses))
          n == Len(AgentsOf(data.agent_responses))
      IN /\ ProgressShown
         /\ DOMAIN The(ProgressView) = Positions(data)
         /\ \A i \in Positions(data) :
              /\ StatusAt(i) \in { "completed", "current", "pending" }
              /\ (StatusAt(i) = "completed") = (queue[i] \in ran)
              /\ (StatusAt(i) = "current") = (queue[i] \notin ran /\ i - 1 = n)
         /\ Cardinality({ i \in Positions(data) : StatusAt(i) = "current" }) <= 1

\* the indicator shows a completed, a current and a pending position
C4_Witness ==
  /\ ProgressShown
  /\ LastData # Absent
  /\ \E i, j, k \in DOMAIN The(ProgressView) :
       /\ StatusAt(i) = "completed"
       /\ StatusAt(j) = "current"
       /\ StatusAt(k) = "pending"

\* the agents that answered are, in order, the first k entries of the queue
RanFirst(data, k) ==
  /\ k = Len(AgentsOf(data.agent_responses))
  /\ k <= Len(OrEmpty(data.agent_queue))
  /\ AgentsOf(data.agent_responses) = SubSeq(OrEmpty(data.agent_queue), 1, k)

\* C5: when the agents of agent_responses are the first k queue entries, the
\* first k positions are shown completed, position k current and the later
\* ones pending, also when an agent name occurs twice in the queue.
C5_SequentialProgress ==
  \A data \in LastData :
    \A k \in 0..Len(OrEmpty(data.agent_queue)) :
      (Shown(data) /\ RanFirst(data, k)) =>
        /\ ProgressShown
        /\ \A i \in Positions(data) :
             StatusAt(i) = IF i <= k THEN "completed"
                           ELSE IF i = k + 1 THEN "current"
                           ELSE "pending"

\* C6: while a request is in flight the workflow progress indicator is shown.
C6_LiveProgress == isLoading => ProgressShown
\* --------------------------------------------------- claims: CacheService
\* the latest set for key is still within its ttl (10 minutes by default)
Fresh(key) ==
  /\ key \in DOMAIN lastSet
  /\ now <= lastSet[key].at + (IF lastSet[key].ttl = Absent THEN 10 ELSE The(lastSet[key].ttl))

\* C7: get(key) returns the value of the latest set for key while the time is
\* not later than that set's time plus its ttl, and null in every other case;
\* a get that finds the entry expired removes it, and neither get nor has
\* returns an expired entry.
C7_GetFreshOrNull ==
  /\ [](\A key \in CacheKeys :
          /\ GetResult(key) = IF Fresh(key) THEN lastSet[key].value ELSE NullValue
          /\ ~Fresh(key) => ~HasResult(key))
  /\ [][\A key \in CacheKeys :
          (CacheGet(key) /\ Expired(key)) =>
            (key \notin DOMAIN cache' /\ key \notin DOMAIN expiry')]_vars

\* an entry that was set, expired, and was removed by a get or has
C7_Witness ==
  \E key \in CacheKeys :
    /\ key \in DOMAIN lastSet
    /\ lastSet[key].value # NullValue
    /\ ~Fresh(key)
    /\ key \notin DOMAIN cache

\* two getOrSet calls ran at overlapping times
Overlap(x, y) == x.start < y.end /\ y.start < x.end

\* C8: of two overlapping getOrSet calls for the same key at most one writes
\* the key, so neither overwrites the entry the other wrote.
C8_SingleWriter ==
  \A x, y \in gosDone :
    (x.id # y.id /\ x.key = y.key /\ Overlap(x, y)) => ~(x.wrote /\ y.wrote)
\* an unexpired entry for key exists
HasEntry(key) == key \in DOMAIN cache /\ ~Expired(key)

\* C16: a getOrSet call that finds an unexpired entry for its key returns the
\* entry's value without calling asyncFn; a call that finds none calls asyncFn
\* once, stores the result under the key with the given ttl and returns it;
\* this for every result of asyncFn, null included.
C16_GetOrSetMemoizes ==
  [][\A key \in CacheKeys :
       /\ \A call \in gosPending' \ gosPending : call.key = key => ~HasEntry(key)
       /\ \A call \in gosDone' \ gosDone :
            (call.key = key /\ ~call.calledFn) =>
              HasEntry(key) /\ call.returned = cache[key]
       /\ \A call \in gosPending \ gosPending', done \in gosDone' \ gosDone :
            (call.key = key /\ done.id = call.id /\ done.wrote) =>
              /\ cache'[key] = done.returned
              /\ expiry'[key] = now + TtlOf(call.ttl)]_vars

\* ------------------------------------------------------ claims: Dashboard
FailedLoad(load) == load.outcome \notin { "ok", "cached" }

\* C9: every failed load of /dashboard/data sets a non-null error string and
\* ends with loading false; the Dashboard then renders the error view, whose
\* Retry button starts fetchInstagramData again.
C9_FailedLoadShowsRetry ==
  /\ []((\E load \in dashLoads : FailedLoad(load)) =>
          /\ dashError # Absent
          /\ DashboardView = "error"
          /\ (dashStarted < MaxLoads => ENABLED RetryClick))
  /\ [][(\E load \in dashLoads' \ dashLoads : FailedLoad(load)) =>
          (~dashLoading' /\ Truthy(dashError'))]_vars
  /\ [][RetryClick => dashStarted' = dashStarted + 1]_vars

\* a load failed on the network, Retry was clicked, and the retried load
\* failed on a body with success false
C9_Witness ==
  /\ DashboardView = "error"
  /\ \E first, second \in dashLoads :
       /\ first.outcome = "network"
       /\ second.outcome = "not_success"
       /\ second.id > first.id

\* the three texts the catch block of fetchInstagramData can choose
TimeoutMessage == <<"Request", "timed", "out", "after", "25", "seconds.">>

NetworkMessage == <<"Network", "error.">>

GenericPrefix == <<"Failed", "to", "load", "data:">>

IsGeneric(message) == IsPrefix(GenericPrefix, message)

\* C11 as stated: the error message of a failed load is the network-error
\* message or a generic failure message, never a third kind.
C11_TwoKinds ==
  \A message \in dashError : message = NetworkMessage \/ IsGeneric(message)

\* C11 as amended: the error message of a failed load is one of three kinds:
\* the timeout message when the 25 s timeout fired, the network-error message
\* when fetch failed on the network, and otherwise "Failed to load data:"
\* followed by the message of the error caught.
C11_ThreeKinds ==
  /\ [](\A message \in dashError :
          message \in { TimeoutMessage, NetworkMessage } \/ IsGeneric(message))
  /\ [][\A load \in dashLoads' \ dashLoads :
          FailedLoad(load) =>
            \E message \in dashError' :
              /\ (message = TimeoutMessage) = (load.outcome = "timeout")
              /\ (message = NetworkMessage) = (load.outcome = "network")
              /\ IsGeneric(message) = (load.outcome \notin { "timeout", "network" })]_vars

\* three loads failed, one in each way, the timeout last
C11_Witness ==
  /\ dashError = Some(TimeoutMessage)
  /\ { "network", "http", "timeout" } \subseteq { load.outcome : load \in dashLoads }

\* C17: fetchInstagramData sends GET /dashboard/data only when the cache has
\* no unexpired dashboard_data entry; it writes the cache only with the body
\* of an OK response whose success is true, kept for 3 minutes; so a load
\* served from the cache never gets an unsuccessful response.
C17_CacheOnlySuccess ==
  /\ [][dashCalls' \ dashCalls # {} =>
          (\A call \in dashCalls' \ dashCalls : call.stage = "fetch" => ~HasEntry("dashboard_data"))]_vars
  /\ [][lastSet' # lastSet =>
          /\ \E call \in dashCalls \ dashCalls' : call.stage = "json"
          /\ lastSet'["dashboard_data"].value.success
          /\ cache'["dashboard_data"] = lastSet'["dashboard_data"].value
          /\ expiry'["dashboard_data"] = now + 3]_vars
  /\ [][\A load \in dashLoads' \ dashLoads :
          load.outcome = "cached" =>
            /\ HasEntry("dashboard_data")
            /\ cache["dashboard_data"].success
            /\ dashData' = cache["dashboard_data"].data]_vars
  /\ [](\A key \in DOMAIN cache : cache[key].success)

\* a load got success false, the next one succeeded and was cached, and a
\* third one was served from the cache
C17_Witness ==
  \E first, second, third \in dashLoads :
    /\ first.id < second.id /\ second.id < third.id
    /\ first.outcome = "not_success"
    /\ second.outcome = "ok"
    /\ third.outcome = "cached"

\* ------------------------------------------------------ claims: Analytics
Unsuccessful(load) == load.threw \/ ~load.account \/ ~load.media

\* C10: when loading the account or media data did not succeed (a call threw
\* or returned success false) the error string is set and, once loading is
\* false, the error view is shown instead of the data view.
C10_UnsuccessfulLoadShowsError ==
  (\E load \in anLoads : Unsuccessful(load)) =>
    /\ Truthy(anError)
    /\ ~anLoading => AnalyticsView = "error"
\* ------------------------------------------------ claims: ContentCalendar
MethodOf(op) ==
  CASE op = "list" -> "GET" [] op = "create" -> "POST"
    [] op = "update" -> "PUT" [] op = "delete" -> "DELETE"

\* C12: every scheduled-post request of the calendar goes to the resource
\* /api/scheduled-posts: GET and POST on the collection for listing and
\* creating, PUT and DELETE on /api/scheduled-posts/{id} for updating and
\* deleting, and no other path.
C12_ScheduledPostsResource ==
  \A i \in DOMAIN calIssued :
    /\ calIssued[i].method = MethodOf(calIssued[i].op)
    /\ calIssued[i].path.base = "/api/scheduled-posts"
    /\ (calIssued[i].path.id # Absent) = (calIssued[i].op \in { "update", "delete" })
\* ------------------------------------------------------------ claims: App
\* C13: activeTab starts as dashboard and is always one of the five tab ids,
\* whatever the sidebar clicks and quick actions; the five ids render five
\* different components, and the component of activeTab is the one mounted.
C13_ActiveTab ==
  /\ activeTab = "dashboard"
  /\ [](/\ activeTab \in { "dashboard", "agents", "calendar", "analytics", "community" }
        /\ \A a, b \in Range(navigation) : a # b => renderContent(a) # renderContent(b)
        /\ dashMounted = (renderContent(activeTab) = "Dashboard")
        /\ calMounted = (renderContent(activeTab) = "ContentCalendar"))

\* the Dashboard had loaded its data, and the calendar tab is now shown
C13_Witness ==
  /\ activeTab = "calendar"
  /\ calMounted /\ ~dashMounted
  /\ \E load \in dashLoads : load.outcome = "ok"
\* ------------------------------------------------- claims: workflow graph
\* the nodes from which there is a path to Complete Workflow
RECURSIVE Ancestors(_)
Ancestors(nodes) ==
  LET more == nodes \cup { edge.from : edge \in { e \in Edges : e.to \in nodes } }
  IN IF more = nodes THEN nodes ELSE Ancestors(more)

PassedEdge(edge) == edge.from = "COMPLIANCE" /\ edge.label = "Passed"

\* C14 as stated: Failed returns control from Compliance to Content, and
\* every visit to Publishing comes right after a Compliance visit that passed.
C14_PublishingAfterCompliance ==
  \A i \in DOMAIN graphPath :
    /\ (graphPath[i].from = "COMPLIANCE" /\ graphPath[i].label = "Failed") =>
         graphPath[i].to = "CONTENT"
    /\ graphPath[i].to = "PUBLISHING" => PassedEdge(graphPath[i])

\* C14 as amended: Failed returns control from Compliance to Content, and
\* every visit to Publishing comes right after a Compliance visit that passed
\* or straight from the Central Router on its Direct edge.
C14_PublishingAfterComplianceOrRouter ==
  \A i \in DOMAIN graphPath :
    /\ (graphPath[i].from = "COMPLIANCE" /\ graphPath[i].label = "Failed") =>
         graphPath[i].to = "CONTENT"
    /\ graphPath[i].from = "COMPLIANCE" => graphPath[i].label \in { "Passed", "Failed" }
    /\ graphPath[i].to = "PUBLISHING" =>
         \/ PassedEdge(graphPath[i])
         \/ graphPath[i].from = "ROUTER" /\ graphPath[i].label = "Direct"

\* Compliance failed once, Content ran again, Compliance passed, Publishing ran
C14_Witness ==
  \E i, j \in DOMAIN graphPath :
    /\ i < j
    /\ graphPath[i].from = "COMPLIANCE" /\ graphPath[i].label = "Failed"
    /\ PassedEdge(graphPath[j]) /\ graphPath[j].to = "PUBLISHING"

\* C15: every node the workflow can be at has a path to Complete Workflow, and
\* only Complete Workflow has no outgoing edge.
C15_NoDeadEnd ==
  /\ CurrentNode \in Ancestors({ "COMPLETE" })
  /\ CurrentNode # "COMPLETE" => \E edge \in Edges : edge.from = CurrentNode

\* ------------------------------- claims: Dashboard, weekly performance chart
\* C18: when /instagram/insights/performance is not OK or has no usable data,
\* the chart fetchWeeklyInsights sets is the aggregation of the media posts of
\* the dashboard result its own processDashboardData call processed (the list
\* that call passed to setAllPosts), not of a list an earlier render held.
C18_FallbackFromProcessedPosts ==
  \A entry \in chartSet :
    (entry.source = "fallback" /\ entry.today = today) =>
      entry.chart = ensureSevenDays(ArrayOf(computeWeeklyFromPosts(entry.posts)))

\* the names of the 7 consecutive days that end with a day
SevenDayNames(day) == [ i \in 1..WindowDays |-> WeekdayOf(day - (WindowDays - i)) ]

\* C19: every array ensureSevenDays returns has exactly 7 entries, named after
\* the 7 consecutive days from 6 days ago to today, in that order.
C19_SevenDaysEndingToday ==
  \A entry \in chartSet :
    /\ Len(entry.chart) = WindowDays
    /\ [ i \in 1..WindowDays |-> entry.chart[i].name ] = SevenDayNames(entry.today)

\* ------------------------------------------------ claims: polling and unmount
\* a poll request of the calendar starts in this step
CalPollStarts ==
  /\ Len(calIssued') = Len(calIssued) + 1
  /\ calIssued'[Len(calIssued')] =
       [ op |-> "list", method |-> "GET", path |-> ScheduledPostsPath ]

\* a fetchNextScheduledPost call starts in this step
NextPostPollStarts == nextPostIssued' = nextPostIssued + 1

\* C20: a mounted ContentCalendar loads the scheduled posts once when its mount
\* effect runs and has its 30 s interval set from then on; a mounted Dashboard
\* has its 30 s fetchNextScheduledPost interval set; an unmounted component
\* has no interval and no start timer left, and every poll request starts
\* while its component is mounted.
C20_PollsOnlyWhileMounted ==
  /\ [](/\ (calMounted /\ ~calEffect) => calInterval
        /\ ~calMounted => (~calInterval /\ ~calEffect)
        /\ dashMounted => dashInterval
        /\ ~dashMounted => (~dashInterval /\ ~dashTimer))
  /\ [][/\ (calEffect /\ ~calEffect' /\ calMounted') => CalPollStarts
        /\ Len(calIssued') # Len(calIssued) => (CalPollStarts /\ calMounted /\ calMounted')
        /\ nextPostIssued' # nextPostIssued =>
             (NextPostPollStarts /\ dashMounted /\ dashMounted')
        /\ dashStarted' # dashStarted => (dashMounted /\ dashMounted')]_vars

\* both components have polled on their intervals and have unmounted since
C20_Witness ==
  /\ ~calMounted /\ ~dashMounted
  /\ Len(calIssued) >= 2
  /\ nextPostIssued >= 1

\* ----------------------------------------- claims: ContentCalendar month grid
\* C21: getDaysInMonth(currentDate) is k empty cells followed by the dates
\* 1..N of the month of currentDate, once each and in increasing order, k the
\* weekday index (Sunday = 0) of the 1st and N the length of the month; in the
\* grid of 7 columns every date stands under the header of its own weekday.
C21_MonthGrid ==
  LET days == getDaysInMonth(currentDate)
      year == getFullYear(currentDate)
      month == getMonth(currentDate)
      k == getDay(NewDate(year, month, 1))
      N == MonthLength(year, month)
  IN  /\ Len(days) = k + N
      /\ \A i \in 1..k : days[i] = Absent
      /\ \A d \in 1..N :
           /\ days[k + d] # Absent
           /\ getFullYear(The(days[k + d])) = year
           /\ getMonth(The(days[k + d])) = month
           /\ getDate(The(days[k + d])) = d
      /\ \A i \in 1..Len(days) :
           days[i] # Absent => weekDays[((i - 1) % Len(weekDays)) + 1]
                                 = weekDays[getDay(The(days[i])) + 1]

\* the grid shows the February of a leap year, reached by leafing forward
\* from the January the calendar was mounted in
C21_Witness ==
  /\ getMonth(currentDate) = 1
  /\ MonthLength(getFullYear(currentDate), 1) = 29
  /\ getDay(currentDate) # 0
  /\ Len(getDaysInMonth(currentDate)) > 29

\* ------------------------------------- claims: ContentCalendar, list updates
\* the request whose handler runs to its end in this step
Settles(req) == req \in calRequests /\ req \notin calRequests'

\* C22: a create, update or delete that ends either leaves the list alone (it
\* failed) or applies its own change to the list as it is when the response
\* arrives, so that what completed while it was in flight stays in the list.
C22_NoLostUpdate ==
  [][\A req \in calRequests :
       /\ (Settles(req) /\ req.op = "delete") =>
            scheduledPosts' \in
              { scheduledPosts, FilterOut(scheduledPosts, The(req.path.id)) }
       /\ (Settles(req) /\ req.op = "create") =>
            \/ scheduledPosts' = scheduledPosts
            \/ \E id \in PostIds :
                 scheduledPosts' =
                   Append(scheduledPosts,
                          Post(id, The(req.captured.body).content,
                               The(req.captured.body).scheduled_time))
       /\ (Settles(req) /\ req.op = "update") =>
            scheduledPosts' \in
              { scheduledPosts,
                Replace(scheduledPosts, The(req.captured.selected).id,
                        Post(The(req.captured.selected).id,
                             The(req.captured.body).content,
                             The(req.captured.body).scheduled_time)) }]_vars

\* ---------------------------------------- claims: ContentCalendar, the modal
\* C23: whenever the schedule modal is closed, selectedPost is null and the
\* form is blank, so that the Schedule Post button opens it in create mode.
C23_ClosedModalIsReset ==
  (calMounted /\ ~showScheduleModal) =>
    (selectedPost = Absent /\ newPost = BlankForm)

\* ------------------------------ claims: ContentCalendar, failed interactions
\* the interaction that ends in this step got a response that is not OK, or
\* its fetch threw
FailedInteraction ==
  /\ \E req \in calRequests : Settles(req)
  /\ calOutcome' # Absent
  /\ The(calOutcome').kind \in { "throws", "not_ok" }

\* C24, as claimed: a refresh, create, update or delete that fails leaves the
\* displayed list of scheduled posts exactly as it was.
C24_FailureKeepsList ==
  [][FailedInteraction => scheduledPosts' = scheduledPosts]_vars

\* C24, amended: a failed create, update or delete, and a refresh answered
\* with a status that is not OK, leave the displayed list exactly as it was;
\* a refresh whose fetch throws empties it.
C24_FailureKeepsListOrEmptiesIt ==
  [][FailedInteraction =>
       IF The(calOutcome').op = "list" /\ The(calOutcome').kind = "throws"
         THEN scheduledPosts' = <<>>
         ELSE scheduledPosts' = scheduledPosts]_vars

\* a delete has failed and the posts are still listed
C24_Witness ==
  /\ calOutcome = Some([ op |-> "delete", kind |-> "throws" ])
  /\ scheduledPosts # <<>>

\* ------------------------------------------------------------ claims: Retry
\* C25: when a load of the Dashboard or of Analytics ends with success while
\* the error of an earlier load is set (the load of a Retry), the error is
\* cleared and the normal view is rendered, not the error view.
C25_RetrySuccessClearsError ==
  [][/\ (/\ Truthy(dashError)
         /\ \E load \in dashLoads' \ dashLoads : load.outcome = "ok")
          => (~Truthy(dashError') /\ DashboardView' = "dashboard")
     /\ (/\ Truthy(anError)
         /\ \E load \in anLoads' \ anLoads : ~Unsuccessful(load))
          => (~Truthy(anError') /\ AnalyticsView' = "data")]_vars
====
